---- MODULE Spec2Model ----
(***************************************************************************)
(* RatioCalc: financial-statement ratios, their aggregation into a         *)
(* consolidated table and the weighted health score.                       *)
(*                                                                         *)
(* Numbers are exact rationals <<n, d>> in lowest terms with d > 0 (the     *)
(* program uses IEEE doubles; rounding is not modelled).  Null == <<0, 0>>  *)
(* stands for Python's None / NaN in a ratio series.                        *)
(***************************************************************************)
EXTENDS Integers, Sequences, FiniteSets, TLC

VARIABLES call, result, drop_periods, fundamentals, ret

vars == <<call, result, drop_periods, fundamentals, ret>>

(***************************************************************************)
(* Bounds of the model.                                                    *)
(***************************************************************************)
\* most period columns a statement table has
MaxPeriods == 3
\* numeric cells range over 0..MaxVal
MaxVal == 2
\* the value every cell of an undisturbed table holds
BaseVal == 1

Labels == <<"2025-03-31", "2024-03-31", "2023-03-31", "2022-03-31", "2021-03-31">>
\* period labels, most recent first
PeriodsUpTo(n) == SubSeq(Labels, 1, n)
AllPeriods == PeriodsUpTo(MaxPeriods)
\* a label that is a column of no table
UnknownDate == "1999-12-31"
\* date=None
NoDate == "None"

Range(s) == {s[i] : i \in DOMAIN s}

(***************************************************************************)
(* Exact rational arithmetic.                                              *)
(***************************************************************************)
Abs(x) == IF x < 0 THEN -x ELSE x

RECURSIVE GCD(_, _)
GCD(a, b) == IF b = 0 THEN a ELSE GCD(b, a % b)

Null == <<0, 0>>
IsNull(x) == x[2] = 0

Frac(n, d) ==
    IF d = 0 THEN Null
    ELSE LET g == GCD(Abs(n), Abs(d))
             s == IF d < 0 THEN -1 ELSE 1
         IN  <<(s * n) \div g, (s * d) \div g>>

FromInt(i) == <<i, 1>>
Zero == FromInt(0)
One == FromInt(1)
Half == Frac(1, 2)

\* NaN propagates through arithmetic; every comparison with NaN is false
FAdd(a, b) == IF IsNull(a) \/ IsNull(b) THEN Null
              ELSE Frac(a[1] * b[2] + b[1] * a[2], a[2] * b[2])
FSub(a, b) == IF IsNull(a) \/ IsNull(b) THEN Null
              ELSE Frac(a[1] * b[2] - b[1] * a[2], a[2] * b[2])
FMul(a, b) == IF IsNull(a) \/ IsNull(b) THEN Null
              ELSE Frac(a[1] * b[1], a[2] * b[2])
FDiv(a, b) == IF IsNull(a) \/ IsNull(b) \/ b[1] = 0 THEN Null
              ELSE Frac(a[1] * b[2], a[2] * b[1])
FLt(a, b) == ~IsNull(a) /\ ~IsNull(b) /\ a[1] * b[2] < b[1] * a[2]
FLe(a, b) == ~IsNull(a) /\ ~IsNull(b) /\ a[1] * b[2] <= b[1] * a[2]
FEq(a, b) == ~IsNull(a) /\ ~IsNull(b) /\ a = b

(***************************************************************************)
(* Statement tables (pandas DataFrames): ordered period columns, account   *)
(* rows, cells that are a real number, NaN or a complex number.            *)
(***************************************************************************)
Num(i) == [t |-> "num", v |-> i]
NaN == [t |-> "nan", v |-> 0]
Complex == [t |-> "complex", v |-> 0]

NoneTable == [isNone |-> TRUE, columns |-> <<>>, rows |-> <<>>]

FullTable(accts, cols) ==
    [isNone |-> FALSE, columns |-> cols,
     rows |-> [a \in accts |-> [p \in Range(cols) |-> Num(BaseVal)]]]

\* DataFrame.at[account, date] raises KeyError for an unknown row or column
Has(t, a, d) == a \in DOMAIN t.rows /\ d \in Range(t.columns)
At(t, a, d) == t.rows[a][d]

(***************************************************************************)
(* Outcomes of a call: a returned scalar, a returned series, or a raise.   *)
(* exc is the Python exception type, kind the failure kind of the         *)
(* specification's taxonomy.                                               *)
(***************************************************************************)
NoSeries == <<>>
Ok(v) == [exc |-> "none", kind |-> "none", val |-> v, series |-> NoSeries, keys |-> <<>>]
\* a returned dict: its keys in insertion order, and its values
OkSeries(ks, s) ==
    [exc |-> "none", kind |-> "none", val |-> Null, series |-> s, keys |-> ks]
Raise(e, k) == [exc |-> e, kind |-> k, val |-> Null, series |-> NoSeries, keys |-> <<>>]
IsRaise(o) == o.exc # "none"

MissingInput == Raise("ValueError", "MissingInput")
InsufficientHistory == Raise("ValueError", "InsufficientHistory")
DateNotFound == Raise("ValueError", "DateNotFound")
MissingAccount == Raise("KeyError", "MissingAccount")
MissingValue == Raise("ValueError", "MissingValue")
InvalidType == Raise("TypeError", "InvalidType")
DivisionByZero == Raise("ZeroDivisionError", "DivisionByZero")
\* columns[0] of a table without columns
NoColumns == Raise("IndexError", "NoColumns")

\* the to_float closure every ratio function defines
to_float(cell) ==
    IF cell.t = "nan" THEN MissingValue
    ELSE IF cell.t = "complex" THEN InvalidType
    ELSE Ok(FromInt(cell.v))

\* the first raise of a sequence of conversions, in evaluation order
RECURSIVE FirstRaise(_)
FirstRaise(os) ==
    IF os = <<>> THEN Ok(Null)
    ELSE IF IsRaise(Head(os)) THEN Head(os)
    ELSE FirstRaise(Tail(os))

(***************************************************************************)
(* Input tables: a table whose cells all hold BaseVal, disturbed in at     *)
(* most two places (a cell set to another number, NaN or a complex number, *)
(* a row dropped, a column dropped, the table replaced by None).           *)
(***************************************************************************)
SetCell(t, a, p, c) ==
    IF a \in DOMAIN t.rows /\ p \in Range(t.columns)
    THEN [t EXCEPT !.rows[a][p] = c]
    ELSE t

DropRow(t, a) ==
    [t EXCEPT !.rows = [x \in (DOMAIN t.rows) \ {a} |-> t.rows[x]]]

DropCol(t, p) ==
    [isNone |-> t.isNone,
     columns |-> SelectSeq(t.columns, LAMBDA x : x # p),
     rows |-> [a \in DOMAIN t.rows |->
                 [q \in (Range(t.columns) \ {p}) |-> t.rows[a][q]]]]

CellAlts == ({Num(v) : v \in 0..MaxVal} \cup {NaN, Complex}) \ {Num(BaseVal)}

Noop == [k |-> "noop", t |-> "bs", a |-> "", p |-> "", c |-> NaN]

Defects(tname, accts, cols) ==
    IF accts = {} THEN {}
    ELSE {[k |-> "cell", t |-> tname, a |-> a, p |-> p, c |-> c] :
               a \in accts, p \in Range(cols), c \in CellAlts}
         \cup {[k |-> "row", t |-> tname, a |-> a, p |-> "", c |-> NaN] : a \in accts}
         \cup {[k |-> "col", t |-> tname, a |-> "", p |-> p, c |-> NaN] : p \in Range(cols)}
         \cup {[k |-> "none", t |-> tname, a |-> "", p |-> "", c |-> NaN]}

ApplyDefect(tname, t, d) ==
    IF d.t # tname \/ t.isNone THEN t
    ELSE CASE d.k = "cell" -> SetCell(t, d.a, d.p, d.c)
           [] d.k = "row" -> DropRow(t, d.a)
           [] d.k = "col" -> DropCol(t, d.p)
           [] d.k = "none" -> NoneTable
           [] OTHER -> t

Disturbed(tname, accts, cols, d1, d2) ==
    IF accts = {} THEN NoneTable
    ELSE ApplyDefect(tname, ApplyDefect(tname, FullTable(accts, cols), d1), d2)

\* the (balance sheet, income statement) pairs a ratio reading bsA and incA is called with
Inputs(bsA, incA) ==
    UNION {LET cols == PeriodsUpTo(n)
               D == Defects("bs", bsA, cols) \cup Defects("inc", incA, cols) \cup {Noop}
           IN  {[bs |-> Disturbed("bs", bsA, cols, d1, d2),
                 inc |-> Disturbed("inc", incA, cols, d1, d2)] : d1 \in D, d2 \in D}
           : n \in 0..MaxPeriods}

\* the date argument of a single-period call
DateArgs == {NoDate, UnknownDate} \cup Range(AllPeriods)

(***************************************************************************)
(* Liquidity ratios, all-periods form (src/liquidity_ratios.py).           *)
(***************************************************************************)
DaysInYear == 365

Caught == {"KeyError", "ValueError", "TypeError"}

\* the loop without KeyError in its except clause: a missing account leaves the call
SeriesOf_KeyError_escapes(cols, o) ==
    LET uncaught == {i \in DOMAIN cols :
                        IsRaise(o[cols[i]]) /\ o[cols[i]].exc \notin Caught \ {"KeyError"}}
    IN  IF uncaught # {}
        THEN o[cols[CHOOSE i \in uncaught : \A j \in uncaught : i <= j]]
        ELSE OkSeries(cols, [d \in Range(cols) |-> IF IsRaise(o[d]) THEN Null ELSE o[d].val])

\* the loop with "continue" in its except clause: a failed period gets no entry
SeriesOf_skipping_failed(cols, o) ==
    LET uncaught == {i \in DOMAIN cols : IsRaise(o[cols[i]]) /\ o[cols[i]].exc \notin Caught}
        done == SelectSeq(cols, LAMBDA d : ~IsRaise(o[d]))
    IN  IF uncaught # {}
        THEN o[cols[CHOOSE i \in uncaught : \A j \in uncaught : i <= j]]
        ELSE OkSeries(done, [d \in Range(done) |-> o[d].val])

\* for d in columns: try: ... except (KeyError, ValueError, TypeError): ratios[d] = None
\* an exception of another type leaves the loop and the call
SeriesOf(cols, o) ==
    LET uncaught == {i \in DOMAIN cols : IsRaise(o[cols[i]]) /\ o[cols[i]].exc \notin Caught}
    IN  IF uncaught # {}
        THEN o[cols[CHOOSE i \in uncaught : \A j \in uncaught : i <= j]]
        ELSE OkSeries(cols, [d \in Range(cols) |-> IF IsRaise(o[d]) THEN Null ELSE o[d].val])

current_ratio_zero_raises(bs, d) ==
    IF ~Has(bs, "Current Assets", d) \/ ~Has(bs, "Current Liabilities", d)
    THEN MissingAccount
    ELSE LET ca == to_float(At(bs, "Current Assets", d))
             cl == to_float(At(bs, "Current Liabilities", d))
             bad == FirstRaise(<<ca, cl>>)
         IN  IF IsRaise(bad) THEN bad
             ELSE IF cl.val = Zero THEN DivisionByZero
             ELSE Ok(FDiv(ca.val, cl.val))

\* with the quotient inverted
current_ratio_inverted(bs, d) ==
    IF ~Has(bs, "Current Assets", d) \/ ~Has(bs, "Current Liabilities", d)
    THEN MissingAccount
    ELSE LET ca == to_float(At(bs, "Current Assets", d))
             cl == to_float(At(bs, "Current Liabilities", d))
             bad == FirstRaise(<<ca, cl>>)
         IN  IF IsRaise(bad) THEN bad
             ELSE IF cl.val = Zero THEN Ok(Null)
             ELSE Ok(FDiv(cl.val, ca.val))

\* the body of the try block for period d
current_ratio_period(bs, d) ==
    IF ~Has(bs, "Current Assets", d) \/ ~Has(bs, "Current Liabilities", d)
    THEN MissingAccount
    ELSE LET ca == to_float(At(bs, "Current Assets", d))
             cl == to_float(At(bs, "Current Liabilities", d))
             bad == FirstRaise(<<ca, cl>>)
         IN  IF IsRaise(bad) THEN bad
             ELSE IF cl.val = Zero THEN Ok(Null)
             ELSE Ok(FDiv(ca.val, cl.val))

current_ratio(bs) ==
    IF bs.isNone THEN MissingInput
    ELSE SeriesOf(bs.columns, [d \in Range(bs.columns) |-> current_ratio_period(bs, d)])

quick_ratio_period(bs, d) ==
    IF \/ ~Has(bs, "Cash Cash Equivalents And Short Term Investments", d)
       \/ ~Has(bs, "Accounts Receivable", d)
       \/ ~Has(bs, "Current Liabilities", d)
    THEN MissingAccount
    ELSE LET cash_equiv == to_float(At(bs, "Cash Cash Equivalents And Short Term Investments", d))
             receivables == to_float(At(bs, "Accounts Receivable", d))
             liabilities == to_float(At(bs, "Current Liabilities", d))
             bad == FirstRaise(<<cash_equiv, receivables, liabilities>>)
         IN  IF IsRaise(bad) THEN bad
             ELSE IF liabilities.val = Zero THEN Ok(Null)
             ELSE Ok(FDiv(FAdd(cash_equiv.val, receivables.val), liabilities.val))

quick_ratio(bs) ==
    IF bs.isNone THEN MissingInput
    ELSE SeriesOf(bs.columns, [d \in Range(bs.columns) |-> quick_ratio_period(bs, d)])

cash_ratio_period(bs, d) ==
    IF \/ ~Has(bs, "Cash Cash Equivalents And Short Term Investments", d)
       \/ ~Has(bs, "Current Liabilities", d)
    THEN MissingAccount
    ELSE LET cash_equiv == to_float(At(bs, "Cash Cash Equivalents And Short Term Investments", d))
             liabilities == to_float(At(bs, "Current Liabilities", d))
             bad == FirstRaise(<<cash_equiv, liabilities>>)
         IN  IF IsRaise(bad) THEN bad
             ELSE IF liabilities.val = Zero THEN Ok(Null)
             ELSE Ok(FDiv(cash_equiv.val, liabilities.val))

cash_ratio(bs) ==
    IF bs.isNone THEN MissingInput
    ELSE SeriesOf(bs.columns, [d \in Range(bs.columns) |-> cash_ratio_period(bs, d)])

defensive_interval_ratio_period(bs, inc, d) ==
    IF \/ ~Has(bs, "Cash And Cash Equivalents", d)
       \/ ~Has(bs, "Accounts Receivable", d)
       \/ ~Has(inc, "Operating Expense", d)
       \/ ~Has(inc, "Depreciation And Amortization In Income Statement", d)
    THEN MissingAccount
    ELSE LET cash == to_float(At(bs, "Cash And Cash Equivalents", d))
             rec == to_float(At(bs, "Accounts Receivable", d))
             op_exp == to_float(At(inc, "Operating Expense", d))
             dep == to_float(At(inc, "Depreciation And Amortization In Income Statement", d))
             bad == FirstRaise(<<cash, rec, op_exp, dep>>)
             defensive_assets == FAdd(cash.val, rec.val)
             annual_op_expenses == FSub(op_exp.val, dep.val)
             daily_op_expenses == FDiv(annual_op_expenses, FromInt(DaysInYear))
         IN  IF IsRaise(bad) THEN bad
             ELSE IF daily_op_expenses = Zero THEN Ok(Null)
             ELSE Ok(FDiv(defensive_assets, daily_op_expenses))

\* the loop runs over the balance sheet's columns
defensive_interval_ratio(bs, inc) ==
    IF bs.isNone \/ inc.isNone THEN MissingInput
    ELSE SeriesOf(bs.columns,
                  [d \in Range(bs.columns) |-> defensive_interval_ratio_period(bs, inc, d)])

(***************************************************************************)
(* Solvency ratios, single-period form (src/solvency_ratios.py).           *)
(***************************************************************************)
\* a zero denominator answered with None, as the all-periods form does
debt_to_assets_ratio_null_on_zero(bs, date) ==
    IF bs.isNone THEN MissingInput
    ELSE IF date = NoDate /\ bs.columns = <<>> THEN NoColumns
    ELSE LET d == IF date = NoDate THEN bs.columns[1] ELSE date
         IN  IF \/ ~Has(bs, "Total Debt", d)
                \/ ~Has(bs, "Total Assets", d)
             THEN MissingAccount
             ELSE LET debt == to_float(At(bs, "Total Debt", d))
                      assets == to_float(At(bs, "Total Assets", d))
                      bad == FirstRaise(<<debt, assets>>)
                  IN  IF IsRaise(bad) THEN bad
                      ELSE Ok(FDiv(debt.val, assets.val))

\* with the denominator converted before the numerator
debt_to_assets_ratio_denominator_first(bs, date) ==
    IF bs.isNone THEN MissingInput
    ELSE IF date = NoDate /\ bs.columns = <<>> THEN NoColumns
    ELSE LET d == IF date = NoDate THEN bs.columns[1] ELSE date
         IN  IF \/ ~Has(bs, "Total Debt", d)
                \/ ~Has(bs, "Total Assets", d)
             THEN MissingAccount
             ELSE LET debt == to_float(At(bs, "Total Debt", d))
                      assets == to_float(At(bs, "Total Assets", d))
                      bad == FirstRaise(<<assets, debt>>)
                      denominator == assets.val
                  IN  IF IsRaise(bad) THEN bad
                      ELSE IF denominator = Zero THEN DivisionByZero
                      ELSE Ok(FDiv(debt.val, denominator))

debt_to_assets_ratio(bs, date) ==
    IF bs.isNone THEN MissingInput
    ELSE IF date = NoDate /\ bs.columns = <<>> THEN NoColumns
    ELSE LET d == IF date = NoDate THEN bs.columns[1] ELSE date
         IN  IF \/ ~Has(bs, "Total Debt", d)
                \/ ~Has(bs, "Total Assets", d)
             THEN MissingAccount
             ELSE LET debt == to_float(At(bs, "Total Debt", d))
                      assets == to_float(At(bs, "Total Assets", d))
                      bad == FirstRaise(<<debt, assets>>)
                      denominator == assets.val
                  IN  IF IsRaise(bad) THEN bad
                      ELSE IF denominator = Zero THEN DivisionByZero
                      ELSE Ok(FDiv(debt.val, denominator))

financial_leverage_ratio(bs, date) ==
    IF bs.isNone THEN MissingInput
    ELSE IF date = NoDate /\ bs.columns = <<>> THEN NoColumns
    ELSE LET d == IF date = NoDate THEN bs.columns[1] ELSE date
         IN  IF \/ ~Has(bs, "Total Assets", d)
                \/ ~Has(bs, "Total Equity Gross Minority Interest", d)
             THEN MissingAccount
             ELSE LET assets == to_float(At(bs, "Total Assets", d))
                      equity == to_float(At(bs, "Total Equity Gross Minority Interest", d))
                      bad == FirstRaise(<<assets, equity>>)
                      denominator == equity.val
                  IN  IF IsRaise(bad) THEN bad
                      ELSE IF denominator = Zero THEN DivisionByZero
                      ELSE Ok(FDiv(assets.val, denominator))

interest_coverage_ratio(inc, date) ==
    IF inc.isNone THEN MissingInput
    ELSE IF date = NoDate /\ inc.columns = <<>> THEN NoColumns
    ELSE LET d == IF date = NoDate THEN inc.columns[1] ELSE date
         IN  IF \/ ~Has(inc, "EBIT", d)
                \/ ~Has(inc, "Interest Expense", d)
             THEN MissingAccount
             ELSE LET ebit_val == to_float(At(inc, "EBIT", d))
                      interest == to_float(At(inc, "Interest Expense", d))
                      bad == FirstRaise(<<ebit_val, interest>>)
                      denominator == interest.val
                  IN  IF IsRaise(bad) THEN bad
                      ELSE IF denominator = Zero THEN DivisionByZero
                      ELSE Ok(FDiv(ebit_val.val, denominator))

(***************************************************************************)
(* Profitability ratios, single-period form (src/profitability_ratios.py). *)
(***************************************************************************)
\* with the omitted date taken from the income statement's first column
return_on_assets_income_date(inc, bs, date) ==
    IF inc.isNone \/ bs.isNone THEN MissingInput
    ELSE IF date = NoDate /\ inc.columns = <<>> THEN NoColumns
    ELSE LET d == IF date = NoDate THEN inc.columns[1] ELSE date
         IN  IF \/ ~Has(inc, "Net Income From Continuing Operation Net Minority Interest", d)
                \/ ~Has(bs, "Total Assets", d)
             THEN MissingAccount
             ELSE LET net_inc == to_float(At(inc, "Net Income From Continuing Operation Net Minority Interest", d))
                      assets == to_float(At(bs, "Total Assets", d))
                      bad == FirstRaise(<<net_inc, assets>>)
                      denominator == assets.val
                  IN  IF IsRaise(bad) THEN bad
                      ELSE IF denominator = Zero THEN DivisionByZero
                      ELSE Ok(FDiv(net_inc.val, denominator))

return_on_assets(inc, bs, date) ==
    IF inc.isNone \/ bs.isNone THEN MissingInput
    ELSE IF date = NoDate /\ bs.columns = <<>> THEN NoColumns
    ELSE LET d == IF date = NoDate THEN bs.columns[1] ELSE date
         IN  IF \/ ~Has(inc, "Net Income From Continuing Operation Net Minority Interest", d)
                \/ ~Has(bs, "Total Assets", d)
             THEN MissingAccount
             ELSE LET net_inc == to_float(At(inc, "Net Income From Continuing Operation Net Minority Interest", d))
                      assets == to_float(At(bs, "Total Assets", d))
                      bad == FirstRaise(<<net_inc, assets>>)
                      denominator == assets.val
                  IN  IF IsRaise(bad) THEN bad
                      ELSE IF denominator = Zero THEN DivisionByZero
                      ELSE Ok(FDiv(net_inc.val, denominator))

return_on_equity(inc, bs, date) ==
    IF inc.isNone \/ bs.isNone THEN MissingInput
    ELSE IF date = NoDate /\ bs.columns = <<>> THEN NoColumns
    ELSE LET d == IF date = NoDate THEN bs.columns[1] ELSE date
         IN  IF \/ ~Has(inc, "Net Income From Continuing Operation Net Minority Interest", d)
                \/ ~Has(bs, "Total Equity Gross Minority Interest", d)
             THEN MissingAccount
             ELSE LET net_inc == to_float(At(inc, "Net Income From Continuing Operation Net Minority Interest", d))
                      equity == to_float(At(bs, "Total Equity Gross Minority Interest", d))
                      bad == FirstRaise(<<net_inc, equity>>)
                      denominator == equity.val
                  IN  IF IsRaise(bad) THEN bad
                      ELSE IF denominator = Zero THEN DivisionByZero
                      ELSE Ok(FDiv(net_inc.val, denominator))

return_on_total_capital(inc, bs, date) ==
    IF inc.isNone \/ bs.isNone THEN MissingInput
    ELSE IF date = NoDate /\ bs.columns = <<>> THEN NoColumns
    ELSE LET d == IF date = NoDate THEN bs.columns[1] ELSE date
         IN  IF \/ ~Has(inc, "EBIT", d)
                \/ ~Has(bs, "Total Debt", d)
                \/ ~Has(bs, "Total Equity Gross Minority Interest", d)
             THEN MissingAccount
             ELSE LET ebit_val == to_float(At(inc, "EBIT", d))
                      debt == to_float(At(bs, "Total Debt", d))
                      equity == to_float(At(bs, "Total Equity Gross Minority Interest", d))
                      bad == FirstRaise(<<ebit_val, debt, equity>>)
                      denominator == FAdd(debt.val, equity.val)
                  IN  IF IsRaise(bad) THEN bad
                      ELSE IF denominator = Zero THEN DivisionByZero
                      ELSE Ok(FDiv(ebit_val.val, denominator))

\* with common equity read from its own account
return_on_common_equity_own_account(inc, bs, date) ==
    IF inc.isNone \/ bs.isNone THEN MissingInput
    ELSE IF date = NoDate /\ bs.columns = <<>> THEN NoColumns
    ELSE LET d == IF date = NoDate THEN bs.columns[1] ELSE date
         IN  IF \/ ~Has(inc, "Net Income From Continuing Operation Net Minority Interest", d)
                \/ ~Has(bs, "Common Stock Equity", d)
             THEN MissingAccount
             ELSE LET net_inc == to_float(At(inc, "Net Income From Continuing Operation Net Minority Interest", d))
                      equity == to_float(At(bs, "Common Stock Equity", d))
                      bad == FirstRaise(<<net_inc, equity>>)
                      denominator == equity.val
                  IN  IF IsRaise(bad) THEN bad
                      ELSE IF denominator = Zero THEN DivisionByZero
                      ELSE Ok(FDiv(net_inc.val, denominator))

return_on_common_equity(inc, bs, date) ==
    IF inc.isNone \/ bs.isNone THEN MissingInput
    ELSE IF date = NoDate /\ bs.columns = <<>> THEN NoColumns
    ELSE LET d == IF date = NoDate THEN bs.columns[1] ELSE date
         IN  IF \/ ~Has(inc, "Net Income From Continuing Operation Net Minority Interest", d)
                \/ ~Has(bs, "Total Equity Gross Minority Interest", d)
             THEN MissingAccount
             ELSE LET net_inc == to_float(At(inc, "Net Income From Continuing Operation Net Minority Interest", d))
                      equity == to_float(At(bs, "Total Equity Gross Minority Interest", d))
                      bad == FirstRaise(<<net_inc, equity>>)
                      denominator == equity.val
                  IN  IF IsRaise(bad) THEN bad
                      ELSE IF denominator = Zero THEN DivisionByZero
                      ELSE Ok(FDiv(net_inc.val, denominator))

(***************************************************************************)
(* Activity ratios, single-period form (src/activity_ratios.py).           *)
(***************************************************************************)
\* dates.index(date): the first position of date
IndexOf(dates, date) ==
    CHOOSE i \in DOMAIN dates : dates[i] = date /\ \A j \in 1..(i - 1) : dates[j] # date

\* without the check that a previous date exists: dates[idx + 1] is out of range
PrevDate_unchecked(dates, date) ==
    IF Len(dates) < 2 THEN InsufficientHistory
    ELSE IF date = NoDate THEN [Ok(Null) EXCEPT !.kind = dates[2]]
    ELSE IF date \notin Range(dates) THEN DateNotFound
    ELSE IF IndexOf(dates, date) + 1 > Len(dates) THEN Raise("IndexError", "NoPreviousDate")
    ELSE [Ok(Null) EXCEPT !.kind = dates[IndexOf(dates, date) + 1]]

\* with the previous period always the second column, whatever date is requested
PrevDate_second_column(dates, date) ==
    IF Len(dates) < 2 THEN InsufficientHistory
    ELSE IF date = NoDate THEN [Ok(Null) EXCEPT !.kind = dates[2]]
    ELSE IF date \notin Range(dates) THEN DateNotFound
    ELSE IF IndexOf(dates, date) + 1 > Len(dates) THEN InsufficientHistory
    ELSE [Ok(Null) EXCEPT !.kind = dates[2]]

\* the previous period of an averaging ratio: a raise, or Ok with the label
\* carried in kind
PrevDate(dates, date) ==
    IF Len(dates) < 2 THEN InsufficientHistory
    ELSE IF date = NoDate THEN [Ok(Null) EXCEPT !.kind = dates[2]]
    ELSE IF date \notin Range(dates) THEN DateNotFound
    ELSE IF IndexOf(dates, date) + 1 > Len(dates) THEN InsufficientHistory
    ELSE [Ok(Null) EXCEPT !.kind = dates[IndexOf(dates, date) + 1]]

\* with the end-of-period inventory in place of the average
inventory_turnover_end_only(inc, bs, date) ==
    IF inc.isNone \/ bs.isNone THEN MissingInput
    ELSE LET dates == bs.columns
             prev == PrevDate(dates, date)
         IN  IF IsRaise(prev) THEN prev
             ELSE LET d == IF date = NoDate THEN dates[1] ELSE date
                      prev_date == prev.kind
                  IN  IF \/ ~Has(inc, "Cost Of Revenue", d)
                         \/ ~Has(bs, "Inventory", d)
                         \/ ~Has(bs, "Inventory", prev_date)
                      THEN MissingAccount
                      ELSE LET cogs_val == to_float(At(inc, "Cost Of Revenue", d))
                               inv_end == to_float(At(bs, "Inventory", d))
                               inv_begin == to_float(At(bs, "Inventory", prev_date))
                               bad == FirstRaise(<<cogs_val, inv_end, inv_begin>>)
                           IN  IF IsRaise(bad) THEN bad
                               ELSE IF inv_end.val = Zero THEN DivisionByZero
                               ELSE Ok(FDiv(cogs_val.val, inv_end.val))

inventory_turnover(inc, bs, date) ==
    IF inc.isNone \/ bs.isNone THEN MissingInput
    ELSE LET dates == bs.columns
             prev == PrevDate(dates, date)
         IN  IF IsRaise(prev) THEN prev
             ELSE LET d == IF date = NoDate THEN dates[1] ELSE date
                      prev_date == prev.kind
                  IN  IF \/ ~Has(inc, "Cost Of Revenue", d)
                         \/ ~Has(bs, "Inventory", d)
                         \/ ~Has(bs, "Inventory", prev_date)
                      THEN MissingAccount
                      ELSE LET cogs_val == to_float(At(inc, "Cost Of Revenue", d))
                               inv_end == to_float(At(bs, "Inventory", d))
                               inv_begin == to_float(At(bs, "Inventory", prev_date))
                               bad == FirstRaise(<<cogs_val, inv_end, inv_begin>>)
                               average == FDiv(FAdd(inv_begin.val, inv_end.val), FromInt(2))
                           IN  IF IsRaise(bad) THEN bad
                               ELSE IF average = Zero THEN DivisionByZero
                               ELSE Ok(FDiv(cogs_val.val, average))

\* with a zero turnover giving a null result instead of a raise
days_of_inventory_on_hand_null_on_zero(inc, bs, date) ==
    LET turnover == inventory_turnover(inc, bs, date)
    IN  IF IsRaise(turnover) THEN turnover
        ELSE Ok(FDiv(FromInt(DaysInYear), turnover.val))

days_of_inventory_on_hand(inc, bs, date) ==
    LET turnover == inventory_turnover(inc, bs, date)
    IN  IF IsRaise(turnover) THEN turnover
        ELSE IF turnover.val = Zero THEN DivisionByZero
        ELSE Ok(FDiv(FromInt(DaysInYear), turnover.val))

receivables_turnover(inc, bs, date) ==
    IF inc.isNone \/ bs.isNone THEN MissingInput
    ELSE LET dates == bs.columns
             prev == PrevDate(dates, date)
         IN  IF IsRaise(prev) THEN prev
             ELSE LET d == IF date = NoDate THEN dates[1] ELSE date
                      prev_date == prev.kind
                  IN  IF \/ ~Has(inc, "Total Revenue", d)
                         \/ ~Has(bs, "Accounts Receivable", d)
                         \/ ~Has(bs, "Accounts Receivable", prev_date)
                      THEN MissingAccount
                      ELSE LET revenue_val == to_float(At(inc, "Total Revenue", d))
                               rec_end == to_float(At(bs, "Accounts Receivable", d))
                               rec_begin == to_float(At(bs, "Accounts Receivable", prev_date))
                               bad == FirstRaise(<<revenue_val, rec_end, rec_begin>>)
                               average == FDiv(FAdd(rec_begin.val, rec_end.val), FromInt(2))
                           IN  IF IsRaise(bad) THEN bad
                               ELSE IF average = Zero THEN DivisionByZero
                               ELSE Ok(FDiv(revenue_val.val, average))

days_of_sales_outstanding(inc, bs, date) ==
    LET turnover == receivables_turnover(inc, bs, date)
    IN  IF IsRaise(turnover) THEN turnover
        ELSE IF turnover.val = Zero THEN DivisionByZero
        ELSE Ok(FDiv(FromInt(DaysInYear), turnover.val))

payables_turnover(inc, bs, date) ==
    IF inc.isNone \/ bs.isNone THEN MissingInput
    ELSE LET dates == bs.columns
             prev == PrevDate(dates, date)
         IN  IF IsRaise(prev) THEN prev
             ELSE LET d == IF date = NoDate THEN dates[1] ELSE date
                      prev_date == prev.kind
                  IN  IF \/ ~Has(inc, "Cost Of Revenue", d)
                         \/ ~Has(bs, "Accounts Payable", d)
                         \/ ~Has(bs, "Accounts Payable", prev_date)
                      THEN MissingAccount
                      ELSE LET cogs_val == to_float(At(inc, "Cost Of Revenue", d))
                               pay_end == to_float(At(bs, "Accounts Payable", d))
                               pay_begin == to_float(At(bs, "Accounts Payable", prev_date))
                               bad == FirstRaise(<<cogs_val, pay_end, pay_begin>>)
                               average == FDiv(FAdd(pay_begin.val, pay_end.val), FromInt(2))
                           IN  IF IsRaise(bad) THEN bad
                               ELSE IF average = Zero THEN DivisionByZero
                               ELSE Ok(FDiv(cogs_val.val, average))

number_of_days_of_payables(inc, bs, date) ==
    LET turnover == payables_turnover(inc, bs, date)
    IN  IF IsRaise(turnover) THEN turnover
        ELSE IF turnover.val = Zero THEN DivisionByZero
        ELSE Ok(FDiv(FromInt(DaysInYear), turnover.val))

working_capital_turnover(inc, bs, date) ==
    IF inc.isNone \/ bs.isNone THEN MissingInput
    ELSE IF date = NoDate /\ bs.columns = <<>> THEN NoColumns
    ELSE LET d == IF date = NoDate THEN bs.columns[1] ELSE date
         IN  IF \/ ~Has(inc, "Total Revenue", d)
                \/ ~Has(bs, "Current Assets", d)
                \/ ~Has(bs, "Current Liabilities", d)
             THEN MissingAccount
             ELSE LET revenue_val == to_float(At(inc, "Total Revenue", d))
                      ca == to_float(At(bs, "Current Assets", d))
                      cl == to_float(At(bs, "Current Liabilities", d))
                      bad == FirstRaise(<<revenue_val, ca, cl>>)
                      denominator == FSub(ca.val, cl.val)
                  IN  IF IsRaise(bad) THEN bad
                      ELSE IF denominator = Zero THEN DivisionByZero
                      ELSE Ok(FDiv(revenue_val.val, denominator))

fixed_asset_turnover(inc, bs, date) ==
    IF inc.isNone \/ bs.isNone THEN MissingInput
    ELSE IF date = NoDate /\ bs.columns = <<>> THEN NoColumns
    ELSE LET d == IF date = NoDate THEN bs.columns[1] ELSE date
         IN  IF \/ ~Has(inc, "Total Revenue", d)
                \/ ~Has(bs, "Net PPE", d)
             THEN MissingAccount
             ELSE LET revenue_val == to_float(At(inc, "Total Revenue", d))
                      nfa == to_float(At(bs, "Net PPE", d))
                      bad == FirstRaise(<<revenue_val, nfa>>)
                      denominator == nfa.val
                  IN  IF IsRaise(bad) THEN bad
                      ELSE IF denominator = Zero THEN DivisionByZero
                      ELSE Ok(FDiv(revenue_val.val, denominator))

\* with the period looked up among the columns first, as the averaging ratios do
total_asset_turnover_date_checked(inc, bs, date) ==
    IF inc.isNone \/ bs.isNone THEN MissingInput
    ELSE IF date = NoDate /\ bs.columns = <<>> THEN NoColumns
    ELSE IF date # NoDate /\ date \notin Range(bs.columns) THEN DateNotFound
    ELSE LET d == IF date = NoDate THEN bs.columns[1] ELSE date
         IN  IF \/ ~Has(inc, "Total Revenue", d)
                \/ ~Has(bs, "Total Assets", d)
             THEN MissingAccount
             ELSE LET revenue_val == to_float(At(inc, "Total Revenue", d))
                      ta == to_float(At(bs, "Total Assets", d))
                      bad == FirstRaise(<<revenue_val, ta>>)
                      denominator == ta.val
                  IN  IF IsRaise(bad) THEN bad
                      ELSE IF denominator = Zero THEN DivisionByZero
                      ELSE Ok(FDiv(revenue_val.val, denominator))

total_asset_turnover(inc, bs, date) ==
    IF inc.isNone \/ bs.isNone THEN MissingInput
    ELSE IF date = NoDate /\ bs.columns = <<>> THEN NoColumns
    ELSE LET d == IF date = NoDate THEN bs.columns[1] ELSE date
         IN  IF \/ ~Has(inc, "Total Revenue", d)
                \/ ~Has(bs, "Total Assets", d)
             THEN MissingAccount
             ELSE LET revenue_val == to_float(At(inc, "Total Revenue", d))
                      ta == to_float(At(bs, "Total Assets", d))
                      bad == FirstRaise(<<revenue_val, ta>>)
                      denominator == ta.val
                  IN  IF IsRaise(bad) THEN bad
                      ELSE IF denominator = Zero THEN DivisionByZero
                      ELSE Ok(FDiv(revenue_val.val, denominator))

(***************************************************************************)
(* State: the last call of a ratio function or of the scorer (call, with   *)
(* its arguments) and what it returned or raised (result); the             *)
(* FinancialRatioCalculator object (drop_periods, fundamentals) and what   *)
(* its last method call returned or raised (ret).                          *)
(***************************************************************************)
NoneInfo == [isNone |-> TRUE, fields |-> <<>>]

\* the fields of the info record that the info-record lookups read
InfoFields ==
    {"profitMargins", "grossMargins", "operatingMargins", "debtToEquity",
     "currentPrice", "operatingCashflow", "sharesOutstanding", "payoutRatio",
     "trailingPE", "priceToBook", "priceToSalesTrailing12Months",
     "trailingAnnualDividendYield"}

FullInfo == [isNone |-> FALSE, fields |-> [k \in InfoFields |-> Num(BaseVal)]]

\* the value of a field of the info record
InfoValue(cell) == IF cell.t = "num" THEN FromInt(cell.v) ELSE Null

NoDataFrame == [index |-> <<>>, columns |-> <<>>, vals |-> <<>>]

NoWeights == <<>>

NoCall == [op |-> "none", bs |-> NoneTable, inc |-> NoneTable, info |-> NoneInfo,
           date |-> NoDate, df |-> NoDataFrame, weights |-> NoWeights]

\* self.fundamentals = None
NoFundamentals ==
    [isNone |-> TRUE, keys |-> {}, balance_sheet |-> NoneTable,
     income_statement |-> NoneTable, cash_flow |-> NoneTable, info |-> NoneInfo]

NoRet == [op |-> "none", exc |-> "none", df |-> NoDataFrame]

\* the accounts each ratio reads from the balance sheet and the income statement
BsAccounts ==
    [current_ratio |-> {"Current Assets", "Current Liabilities"},
     quick_ratio |-> {"Cash Cash Equivalents And Short Term Investments", "Accounts Receivable", "Current Liabilities"},
     cash_ratio |-> {"Cash Cash Equivalents And Short Term Investments", "Current Liabilities"},
     defensive_interval_ratio |-> {"Cash And Cash Equivalents", "Accounts Receivable"},
     debt_to_assets_ratio |-> {"Total Debt", "Total Assets"},
     financial_leverage_ratio |-> {"Total Assets", "Total Equity Gross Minority Interest"},
     interest_coverage_ratio |-> {},
     return_on_assets |-> {"Total Assets"},
     return_on_equity |-> {"Total Equity Gross Minority Interest"},
     return_on_total_capital |-> {"Total Debt", "Total Equity Gross Minority Interest"},
     return_on_common_equity |-> {"Total Equity Gross Minority Interest"},
     inventory_turnover |-> {"Inventory"},
     days_of_inventory_on_hand |-> {"Inventory"},
     receivables_turnover |-> {"Accounts Receivable"},
     days_of_sales_outstanding |-> {"Accounts Receivable"},
     payables_turnover |-> {"Accounts Payable"},
     number_of_days_of_payables |-> {"Accounts Payable"},
     working_capital_turnover |-> {"Current Assets", "Current Liabilities"},
     fixed_asset_turnover |-> {"Net PPE"},
     total_asset_turnover |-> {"Total Assets"}]

IncAccounts ==
    [current_ratio |-> {},
     quick_ratio |-> {},
     cash_ratio |-> {},
     defensive_interval_ratio |-> {"Operating Expense", "Depreciation And Amortization In Income Statement"},
     debt_to_assets_ratio |-> {},
     financial_leverage_ratio |-> {},
     interest_coverage_ratio |-> {"EBIT", "Interest Expense"},
     return_on_assets |-> {"Net Income From Continuing Operation Net Minority Interest"},
     return_on_equity |-> {"Net Income From Continuing Operation Net Minority Interest"},
     return_on_total_capital |-> {"EBIT"},
     return_on_common_equity |-> {"Net Income From Continuing Operation Net Minority Interest"},
     inventory_turnover |-> {"Cost Of Revenue"},
     days_of_inventory_on_hand |-> {"Cost Of Revenue"},
     receivables_turnover |-> {"Total Revenue"},
     days_of_sales_outstanding |-> {"Total Revenue"},
     payables_turnover |-> {"Cost Of Revenue"},
     number_of_days_of_payables |-> {"Cost Of Revenue"},
     working_capital_turnover |-> {"Total Revenue"},
     fixed_asset_turnover |-> {"Total Revenue"},
     total_asset_turnover |-> {"Total Revenue"}]

\* a table of one account row over the first Len(vs) periods, most recent first
OneRow(a, vs) ==
    [isNone |-> FALSE, columns |-> PeriodsUpTo(Len(vs)),
     rows |-> [x \in {a} |-> [p \in Range(PeriodsUpTo(Len(vs))) |->
                                Num(vs[CHOOSE i \in DOMAIN vs : Labels[i] = p])]]]

\* Inventory 50 now and 30 the period before, cost of revenue 120 now
InventoryScenario ==
    [bs |-> OneRow("Inventory", <<50, 30>>), inc |-> OneRow("Cost Of Revenue", <<120>>)]

\* Current Assets 200 and 150, Current Liabilities 100 and 100
CurrentRatioScenario ==
    [bs |-> [isNone |-> FALSE, columns |-> PeriodsUpTo(2),
             rows |-> [a \in {"Current Assets", "Current Liabilities"} |->
                         IF a = "Current Assets"
                         THEN OneRow(a, <<200, 150>>).rows[a]
                         ELSE OneRow(a, <<100, 100>>).rows[a]]],
     inc |-> NoneTable]

ScenarioInputs(op) ==
    CASE op \in {"inventory_turnover", "days_of_inventory_on_hand"} -> {InventoryScenario}
      [] op = "current_ratio" -> {CurrentRatioScenario}
      [] OTHER -> {}

\* the tables a ratio is called with: the disturbed tables and the scenarios
RatioInputs(op) == Inputs(BsAccounts[op], IncAccounts[op]) \cup ScenarioInputs(op)

Returns(op, bs, inc, date, out) ==
    /\ call' = [NoCall EXCEPT !.op = op, !.bs = bs, !.inc = inc, !.date = date]
    /\ result' = out
    /\ UNCHANGED <<drop_periods, fundamentals, ret>>

CurrentRatio ==
    /\ call.op = "none"
    /\ \E in \in RatioInputs("current_ratio") :
           Returns("current_ratio", in.bs, NoneTable, NoDate, current_ratio(in.bs))

QuickRatio ==
    /\ call.op = "none"
    /\ \E in \in RatioInputs("quick_ratio") :
           Returns("quick_ratio", in.bs, NoneTable, NoDate, quick_ratio(in.bs))

CashRatio ==
    /\ call.op = "none"
    /\ \E in \in RatioInputs("cash_ratio") :
           Returns("cash_ratio", in.bs, NoneTable, NoDate, cash_ratio(in.bs))

DefensiveIntervalRatio ==
    /\ call.op = "none"
    /\ \E in \in RatioInputs("defensive_interval_ratio") :
           Returns("defensive_interval_ratio", in.bs, in.inc, NoDate, defensive_interval_ratio(in.bs, in.inc))

DebtToAssetsRatio ==
    /\ call.op = "none"
    /\ \E in \in RatioInputs("debt_to_assets_ratio"), date \in DateArgs :
           Returns("debt_to_assets_ratio", in.bs, NoneTable, date, debt_to_assets_ratio(in.bs, date))

FinancialLeverageRatio ==
    /\ call.op = "none"
    /\ \E in \in RatioInputs("financial_leverage_ratio"), date \in DateArgs :
           Returns("financial_leverage_ratio", in.bs, NoneTable, date, financial_leverage_ratio(in.bs, date))

InterestCoverageRatio ==
    /\ call.op = "none"
    /\ \E in \in RatioInputs("interest_coverage_ratio"), date \in DateArgs :
           Returns("interest_coverage_ratio", NoneTable, in.inc, date, interest_coverage_ratio(in.inc, date))

ReturnOnAssets ==
    /\ call.op = "none"
    /\ \E in \in RatioInputs("return_on_assets"), date \in DateArgs :
           Returns("return_on_assets", in.bs, in.inc, date, return_on_assets(in.inc, in.bs, date))

ReturnOnEquity ==
    /\ call.op = "none"
    /\ \E in \in RatioInputs("return_on_equity"), date \in DateArgs :
           Returns("return_on_equity", in.bs, in.inc, date, return_on_equity(in.inc, in.bs, date))

ReturnOnTotalCapital ==
    /\ call.op = "none"
    /\ \E in \in RatioInputs("return_on_total_capital"), date \in DateArgs :
           Returns("return_on_total_capital", in.bs, in.inc, date, return_on_total_capital(in.inc, in.bs, date))

ReturnOnCommonEquity ==
    /\ call.op = "none"
    /\ \E in \in RatioInputs("return_on_common_equity"), date \in DateArgs :
           Returns("return_on_common_equity", in.bs, in.inc, date, return_on_common_equity(in.inc, in.bs, date))

InventoryTurnover ==
    /\ call.op = "none"
    /\ \E in \in RatioInputs("inventory_turnover"), date \in DateArgs :
           Returns("inventory_turnover", in.bs, in.inc, date, inventory_turnover(in.inc, in.bs, date))

DaysOfInventoryOnHand ==
    /\ call.op = "none"
    /\ \E in \in RatioInputs("days_of_inventory_on_hand"), date \in DateArgs :
           Returns("days_of_inventory_on_hand", in.bs, in.inc, date, days_of_inventory_on_hand(in.inc, in.bs, date))

ReceivablesTurnover ==
    /\ call.op = "none"
    /\ \E in \in RatioInputs("receivables_turnover"), date \in DateArgs :
           Returns("receivables_turnover", in.bs, in.inc, date, receivables_turnover(in.inc, in.bs, date))

DaysOfSalesOutstanding ==
    /\ call.op = "none"
    /\ \E in \in RatioInputs("days_of_sales_outstanding"), date \in DateArgs :
           Returns("days_of_sales_outstanding", in.bs, in.inc, date, days_of_sales_outstanding(in.inc, in.bs, date))

PayablesTurnover ==
    /\ call.op = "none"
    /\ \E in \in RatioInputs("payables_turnover"), date \in DateArgs :
           Returns("payables_turnover", in.bs, in.inc, date, payables_turnover(in.inc, in.bs, date))

NumberOfDaysOfPayables ==
    /\ call.op = "none"
    /\ \E in \in RatioInputs("number_of_days_of_payables"), date \in DateArgs :
           Returns("number_of_days_of_payables", in.bs, in.inc, date, number_of_days_of_payables(in.inc, in.bs, date))

WorkingCapitalTurnover ==
    /\ call.op = "none"
    /\ \E in \in RatioInputs("working_capital_turnover"), date \in DateArgs :
           Returns("working_capital_turnover", in.bs, in.inc, date, working_capital_turnover(in.inc, in.bs, date))

FixedAssetTurnover ==
    /\ call.op = "none"
    /\ \E in \in RatioInputs("fixed_asset_turnover"), date \in DateArgs :
           Returns("fixed_asset_turnover", in.bs, in.inc, date, fixed_asset_turnover(in.inc, in.bs, date))

TotalAssetTurnover ==
    /\ call.op = "none"
    /\ \E in \in RatioInputs("total_asset_turnover"), date \in DateArgs :
           Returns("total_asset_turnover", in.bs, in.inc, date, total_asset_turnover(in.inc, in.bs, date))

(***************************************************************************)
(* DuPont analysis, single-period form (src/profitability_ratios.py).      *)
(***************************************************************************)
DuPontKeys == << "roe", "net_profit_margin", "asset_turnover", "financial_leverage" >>

\* with the margin looked up after the three ratios are computed
dupont_analysis_margin_last(inc, bs, info, date) ==
    LET asset_turnover == total_asset_turnover(inc, bs, date)
        leverage == financial_leverage_ratio(bs, date)
        roe == return_on_equity(inc, bs, date)
        bad == FirstRaise(<<asset_turnover, leverage, roe>>)
    IN  IF IsRaise(bad) THEN bad
        ELSE IF info.isNone THEN InvalidType
        ELSE IF "profitMargins" \notin DOMAIN info.fields THEN MissingAccount
        ELSE OkSeries(DuPontKeys,
                 [roe |-> roe.val,
                  net_profit_margin |-> InfoValue(info.fields["profitMargins"]),
                  asset_turnover |-> asset_turnover.val,
                  financial_leverage |-> leverage.val])

\* with roe built as the product of the three components
dupont_analysis_roe_as_product(inc, bs, info, date) ==
    IF info.isNone THEN InvalidType
    ELSE IF "profitMargins" \notin DOMAIN info.fields THEN MissingAccount
    ELSE LET asset_turnover == total_asset_turnover(inc, bs, date)
             leverage == financial_leverage_ratio(bs, date)
             roe == return_on_equity(inc, bs, date)
             bad == FirstRaise(<<asset_turnover, leverage, roe>>)
             net_profit_margin == InfoValue(info.fields["profitMargins"])
         IN  IF IsRaise(bad) THEN bad
             ELSE OkSeries(DuPontKeys,
                      [roe |-> FMul(net_profit_margin, FMul(asset_turnover.val, leverage.val)),
                       net_profit_margin |-> net_profit_margin,
                       asset_turnover |-> asset_turnover.val,
                       financial_leverage |-> leverage.val])

\* info["profitMargins"] first (None is not subscriptable: TypeError; a missing
\* key: KeyError), then the three ratios in the order of the calls; the margin
\* is returned as it was found
dupont_analysis_single(inc, bs, info, date) ==
    IF info.isNone THEN InvalidType
    ELSE IF "profitMargins" \notin DOMAIN info.fields THEN MissingAccount
    ELSE LET asset_turnover == total_asset_turnover(inc, bs, date)
             leverage == financial_leverage_ratio(bs, date)
             roe == return_on_equity(inc, bs, date)
             bad == FirstRaise(<<asset_turnover, leverage, roe>>)
         IN  IF IsRaise(bad) THEN bad
             ELSE OkSeries(DuPontKeys,
                      [roe |-> roe.val,
                       net_profit_margin |-> InfoValue(info.fields["profitMargins"]),
                       asset_turnover |-> asset_turnover.val,
                       financial_leverage |-> leverage.val])

\* the accounts the three ratios of the analysis read
DuPontBs == {"Total Assets", "Total Equity Gross Minority Interest"}
DuPontInc == {"Total Revenue", "Net Income From Continuing Operation Net Minority Interest"}

\* the info argument: None, a record without the margin, or a record whose
\* margin is a number or NaN
InfoArgs ==
    {NoneInfo,
     [FullInfo EXCEPT !.fields = [k \in InfoFields \ {"profitMargins"} |-> FullInfo.fields[k]]],
     [FullInfo EXCEPT !.fields["profitMargins"] = NaN]}
    \cup {[FullInfo EXCEPT !.fields["profitMargins"] = Num(v)] : v \in 0..MaxVal}

DuPontAnalysis ==
    /\ call.op = "none"
    /\ \E in \in Inputs(DuPontBs, DuPontInc), info \in InfoArgs, date \in DateArgs :
           /\ call' = [NoCall EXCEPT !.op = "dupont_analysis", !.bs = in.bs, !.inc = in.inc,
                                     !.info = info, !.date = date]
           /\ result' = dupont_analysis_single(in.inc, in.bs, info, date)
           /\ UNCHANGED <<drop_periods, fundamentals, ret>>

(***************************************************************************)
(* Market ratios computed from the info record (src/market_ratios.py).     *)
(***************************************************************************)
\* the lookups of the try block: the first key that is missing raises KeyError
InfoHas(info, ks) == \A k \in ks : k \in DOMAIN info.fields

\* with the conversion left out: values are used as they are found
retention_rate_unconverted(info) ==
    IF info.isNone THEN MissingInput
    ELSE IF ~InfoHas(info, {"payoutRatio"}) THEN MissingAccount
    ELSE Ok(FSub(One, InfoValue(info.fields["payoutRatio"])))

price_to_cash_flow_ratio(info) ==
    IF info.isNone THEN MissingInput
    ELSE IF ~InfoHas(info, {"currentPrice", "operatingCashflow", "sharesOutstanding"})
    THEN MissingAccount
    ELSE LET market_price_val == to_float(info.fields["currentPrice"])
             ocf_val == to_float(info.fields["operatingCashflow"])
             shares_val == to_float(info.fields["sharesOutstanding"])
             bad == FirstRaise(<<market_price_val, ocf_val, shares_val>>)
             cash_flow_per_share == FDiv(ocf_val.val, shares_val.val)
         IN  IF IsRaise(bad) THEN bad
             ELSE IF shares_val.val = Zero THEN DivisionByZero
             ELSE IF cash_flow_per_share = Zero THEN DivisionByZero
             ELSE Ok(FDiv(market_price_val.val, cash_flow_per_share))

retention_rate(info) ==
    IF info.isNone THEN MissingInput
    ELSE IF ~InfoHas(info, {"payoutRatio"}) THEN MissingAccount
    ELSE LET payout_val == to_float(info.fields["payoutRatio"])
         IN  IF IsRaise(payout_val) THEN payout_val
             ELSE Ok(FSub(One, payout_val.val))

\* the fields the two market ratios read
MarketFields == {"currentPrice", "operatingCashflow", "sharesOutstanding", "payoutRatio"}

WithField(info, k, c) == [info EXCEPT !.fields[k] = c]
WithoutField(info, k) ==
    [info EXCEPT !.fields = [x \in (DOMAIN info.fields) \ {k} |-> info.fields[x]]]

\* info records disturbed in one field: another number, NaN, complex, or absent
InfosOnce(base) ==
    {base}
    \cup {WithField(base, k, c) : k \in MarketFields \cap DOMAIN base.fields, c \in CellAlts}
    \cup {WithoutField(base, k) : k \in MarketFields}

\* the info argument of a market ratio: None, or a record disturbed at most twice
MarketInfos == {NoneInfo} \cup UNION {InfosOnce(i) : i \in InfosOnce(FullInfo)}

MarketCall(op, info, out) ==
    /\ call' = [NoCall EXCEPT !.op = op, !.info = info]
    /\ result' = out
    /\ UNCHANGED <<drop_periods, fundamentals, ret>>

PriceToCashFlowRatio ==
    /\ call.op = "none"
    /\ \E info \in MarketInfos :
           MarketCall("price_to_cash_flow_ratio", info, price_to_cash_flow_ratio(info))

RetentionRate ==
    /\ call.op = "none"
    /\ \E info \in MarketInfos : MarketCall("retention_rate", info, retention_rate(info))

InitRatio ==
    /\ call = NoCall
    /\ result = Ok(Null)
    /\ drop_periods = {}
    /\ fundamentals = NoFundamentals
    /\ ret = NoRet

\* one call of a ratio function on tables drawn from RatioInputs
NextRatio ==
    \/ CurrentRatio
    \/ QuickRatio
    \/ CashRatio
    \/ DefensiveIntervalRatio
    \/ DebtToAssetsRatio
    \/ FinancialLeverageRatio
    \/ InterestCoverageRatio
    \/ ReturnOnAssets
    \/ ReturnOnEquity
    \/ ReturnOnTotalCapital
    \/ ReturnOnCommonEquity
    \/ InventoryTurnover
    \/ DaysOfInventoryOnHand
    \/ ReceivablesTurnover
    \/ DaysOfSalesOutstanding
    \/ PayablesTurnover
    \/ NumberOfDaysOfPayables
    \/ WorkingCapitalTurnover
    \/ FixedAssetTurnover
    \/ TotalAssetTurnover
    \/ DuPontAnalysis
    \/ PriceToCashFlowRatio
    \/ RetentionRate

SpecRatio == InitRatio /\ [][NextRatio]_vars

\* the ratio functions by the shape of their computation
LiquidityOps == {"current_ratio", "quick_ratio", "cash_ratio", "defensive_interval_ratio"}

AveragingOps == {"inventory_turnover", "receivables_turnover", "payables_turnover"}

DaysOfOps == {"days_of_inventory_on_hand", "days_of_sales_outstanding",
              "number_of_days_of_payables"}

PlainOps == {"debt_to_assets_ratio", "financial_leverage_ratio", "interest_coverage_ratio",
             "return_on_assets", "return_on_equity", "return_on_total_capital",
             "return_on_common_equity", "working_capital_turnover",
             "fixed_asset_turnover", "total_asset_turnover"}

(***************************************************************************)
(* All-periods forms of the solvency, profitability and activity ratios,   *)
(* as ratio_calc calls them: the single-period computation for every       *)
(* period column, a failure of a period giving a null entry; only a None   *)
(* table fails the call.  The averaging turnovers and their days-of        *)
(* derivatives have no entry for the oldest period.                        *)
(***************************************************************************)
NullIfRaise(o) == IF IsRaise(o) THEN Null ELSE o.val

SinglePeriod(op, inc, bs, d) ==
    CASE op = "debt_to_assets_ratio" -> debt_to_assets_ratio(bs, d)
      [] op = "financial_leverage_ratio" -> financial_leverage_ratio(bs, d)
      [] op = "interest_coverage_ratio" -> interest_coverage_ratio(inc, d)
      [] op = "return_on_assets" -> return_on_assets(inc, bs, d)
      [] op = "return_on_equity" -> return_on_equity(inc, bs, d)
      [] op = "return_on_total_capital" -> return_on_total_capital(inc, bs, d)
      [] op = "return_on_common_equity" -> return_on_common_equity(inc, bs, d)
      [] op = "inventory_turnover" -> inventory_turnover(inc, bs, d)
      [] op = "days_of_inventory_on_hand" -> days_of_inventory_on_hand(inc, bs, d)
      [] op = "receivables_turnover" -> receivables_turnover(inc, bs, d)
      [] op = "days_of_sales_outstanding" -> days_of_sales_outstanding(inc, bs, d)
      [] op = "payables_turnover" -> payables_turnover(inc, bs, d)
      [] op = "number_of_days_of_payables" -> number_of_days_of_payables(inc, bs, d)
      [] op = "working_capital_turnover" -> working_capital_turnover(inc, bs, d)
      [] op = "fixed_asset_turnover" -> fixed_asset_turnover(inc, bs, d)
      [] op = "total_asset_turnover" -> total_asset_turnover(inc, bs, d)

AllButOldest(cols) == IF cols = <<>> THEN <<>> ELSE SubSeq(cols, 1, Len(cols) - 1)

BsOnlyOps == {"debt_to_assets_ratio", "financial_leverage_ratio"}

all_periods(op, inc, bs) ==
    IF \/ op # "interest_coverage_ratio" /\ bs.isNone
       \/ op \notin BsOnlyOps /\ inc.isNone
    THEN MissingInput
    ELSE LET cols == IF op = "interest_coverage_ratio" THEN inc.columns ELSE bs.columns
             ks == IF op \in AveragingOps \cup DaysOfOps THEN AllButOldest(cols) ELSE cols
         IN  OkSeries(ks, [d \in Range(ks) |-> NullIfRaise(SinglePeriod(op, inc, bs, d))])


\* DuPont, all-periods form: per period a record of the four components; the
\* margin is the info record's profitMargins, the same for every period
dupont_analysis(inc, bs, info) ==
    IF info.isNone THEN Raise("TypeError", "InvalidType")
    ELSE IF "profitMargins" \notin DOMAIN info.fields THEN MissingAccount
    ELSE IF inc.isNone \/ bs.isNone THEN MissingInput
    ELSE OkSeries(bs.columns,
            [d \in Range(bs.columns) |->
                [roe |-> NullIfRaise(return_on_equity(inc, bs, d)),
                 net_profit_margin |-> InfoValue(info.fields["profitMargins"]),
                 asset_turnover |-> NullIfRaise(total_asset_turnover(inc, bs, d)),
                 financial_leverage |-> NullIfRaise(financial_leverage_ratio(bs, d))]])

(***************************************************************************)
(* FinancialRatioCalculator (src/ratio_calc/calculator.py).                *)
(***************************************************************************)
\* display name and function of each ratio, in the order calculate_ratios calls them
RatioTable ==
    << [name |-> "Current Ratio", op |-> "current_ratio"],
       [name |-> "Quick Ratio", op |-> "quick_ratio"],
       [name |-> "Cash Ratio", op |-> "cash_ratio"],
       [name |-> "Defensive Interval Ratio", op |-> "defensive_interval_ratio"],
       [name |-> "Debt-to-Assets Ratio", op |-> "debt_to_assets_ratio"],
       [name |-> "Financial Leverage Ratio", op |-> "financial_leverage_ratio"],
       [name |-> "Interest Coverage Ratio", op |-> "interest_coverage_ratio"],
       [name |-> "Return on Assets (ROA)", op |-> "return_on_assets"],
       [name |-> "Return on Equity (ROE)", op |-> "return_on_equity"],
       [name |-> "Return on Total Capital (ROTC)", op |-> "return_on_total_capital"],
       [name |-> "Return on Common Equity (ROCE)", op |-> "return_on_common_equity"],
       [name |-> "Inventory Turnover", op |-> "inventory_turnover"],
       [name |-> "Days of Inventory on Hand (DOH)", op |-> "days_of_inventory_on_hand"],
       [name |-> "Receivables Turnover", op |-> "receivables_turnover"],
       [name |-> "Days of Sales Outstanding (DSO)", op |-> "days_of_sales_outstanding"],
       [name |-> "Payables Turnover", op |-> "payables_turnover"],
       [name |-> "Number of Days of Payables", op |-> "number_of_days_of_payables"],
       [name |-> "Working Capital Turnover", op |-> "working_capital_turnover"],
       [name |-> "Fixed Asset Turnover", op |-> "fixed_asset_turnover"],
       [name |-> "Total Asset Turnover", op |-> "total_asset_turnover"] >>

DuPontNames == << "DuPont ROE", "DuPont Net Profit Margin", "DuPont Asset Turnover",
                  "DuPont Financial Leverage" >>

FundamentalsKeys == {"info", "balance_sheet", "income_statement", "cash_flow"}

\* the statement inside one try block: the lookups in self.fundamentals, then the call
RatioCall(op, f) ==
    IF \/ op # "interest_coverage_ratio" /\ "balance_sheet" \notin f.keys
       \/ op \notin BsOnlyOps \cup {"current_ratio", "quick_ratio", "cash_ratio"}
             /\ "income_statement" \notin f.keys
    THEN Raise("KeyError", "MissingAccount")
    ELSE CASE op = "current_ratio" -> current_ratio(f.balance_sheet)
           [] op = "quick_ratio" -> quick_ratio(f.balance_sheet)
           [] op = "cash_ratio" -> cash_ratio(f.balance_sheet)
           [] op = "defensive_interval_ratio" ->
                  defensive_interval_ratio(f.balance_sheet, f.income_statement)
           [] OTHER -> all_periods(op, f.income_statement, f.balance_sheet)

DuPontCall(f) ==
    IF {"income_statement", "balance_sheet", "info"} \subseteq f.keys
    THEN dupont_analysis(f.income_statement, f.balance_sheet, f.info)
    ELSE Raise("KeyError", "MissingAccount")

Entry(n, o) == [name |-> n, keys |-> o.keys, series |-> o.series]

\* _calculate_dupont_analysis entering a component only for the periods where it is not None
DuPontEntries_skipping_null(f) ==
    LET o == DuPontCall(f)
        row(n, s) == [name |-> n,
                      keys |-> SelectSeq(o.keys, LAMBDA d : s[d] # Null),
                      series |-> s]
    IN  IF IsRaise(o) THEN <<>>
        ELSE << row(DuPontNames[1], [d \in Range(o.keys) |-> o.series[d].roe]),
                row(DuPontNames[2], [d \in Range(o.keys) |-> o.series[d].net_profit_margin]),
                row(DuPontNames[3], [d \in Range(o.keys) |-> o.series[d].asset_turnover]),
                row(DuPontNames[4], [d \in Range(o.keys) |-> o.series[d].financial_leverage]) >>

\* _calculate_dupont_analysis: the four rows, or none when the call raised
DuPontEntries(f) ==
    LET o == DuPontCall(f)
        row(n, s) == [name |-> n, keys |-> o.keys, series |-> s]
    IN  IF IsRaise(o) THEN <<>>
        ELSE << row(DuPontNames[1], [d \in Range(o.keys) |-> o.series[d].roe]),
                row(DuPontNames[2], [d \in Range(o.keys) |-> o.series[d].net_profit_margin]),
                row(DuPontNames[3], [d \in Range(o.keys) |-> o.series[d].asset_turnover]),
                row(DuPontNames[4], [d \in Range(o.keys) |-> o.series[d].financial_leverage]) >>

\* every ratio in one try block: the first raise ends the whole aggregation
ratios_multi_one_try(f) ==
    LET o == [i \in DOMAIN RatioTable |-> RatioCall(RatioTable[i].op, f)]
        bad == {i \in DOMAIN RatioTable : IsRaise(o[i])}
        stop == IF bad = {} THEN Len(RatioTable) + 1
                ELSE CHOOSE i \in bad : \A j \in bad : i <= j
    IN  [i \in 1..(stop - 1) |-> Entry(RatioTable[i].name, o[i])]
        \o (IF bad = {} THEN DuPontEntries(f) ELSE <<>>)

\* ratios_multi after the five _calculate_* helpers: an entry for every ratio
\* whose try block did not raise, in the order of the calls
ratios_multi(f) ==
    LET o == [i \in DOMAIN RatioTable |-> RatioCall(RatioTable[i].op, f)]
        all == [i \in DOMAIN RatioTable |-> i]
        kept == SelectSeq(all, LAMBDA i : ~IsRaise(o[i]))
    IN  [i \in DOMAIN kept |-> Entry(RatioTable[kept[i]].name, o[kept[i]])]
        \o DuPontEntries(f)

\* the union of the series' keys, in the order of their first appearance
UnionKeys(es) ==
    LET K == UNION {Range(es[i].keys) : i \in DOMAIN es}
        first(d) == CHOOSE i \in DOMAIN es :
                        /\ d \in Range(es[i].keys)
                        /\ \A j \in 1..(i - 1) : d \notin Range(es[j].keys)
        pos(d) == CHOOSE k \in DOMAIN es[first(d)].keys : es[first(d)].keys[k] = d
        before(e, d) == \/ first(e) < first(d)
                        \/ first(e) = first(d) /\ pos(e) < pos(d)
        rank(d) == Cardinality({e \in K : before(e, d)}) + 1
    IN  [r \in 1..Cardinality(K) |-> CHOOSE d \in K : rank(d) = r]

\* pd.DataFrame(ratios_multi).T: a row per ratio name, a column per period label,
\* NaN where the ratio's series has no entry for the label
DataFrameT(es) ==
    LET cols == UnionKeys(es)
    IN  [index |-> [i \in DOMAIN es |-> es[i].name],
         columns |-> cols,
         vals |-> [n \in {es[i].name : i \in DOMAIN es} |->
                     LET e == es[CHOOSE i \in DOMAIN es : es[i].name = n]
                     IN  [d \in Range(cols) |->
                            IF d \in Range(e.keys) THEN e.series[d] ELSE Null]]]

calculate_ratios(f) ==
    LET es == ratios_multi(f)
    IN  IF es # <<>> THEN DataFrameT(es) ELSE NoDataFrame

\* _clean_data: drop the drop_periods columns from the three statements, in order;
\* a statement that is None has no drop method
CleanTable(t, dp) ==
    [isNone |-> FALSE,
     columns |-> SelectSeq(t.columns, LAMBDA x : x \notin dp),
     rows |-> [a \in DOMAIN t.rows |->
                 [q \in (Range(t.columns) \ dp) |-> t.rows[a][q]]]]

Statements == << "balance_sheet", "income_statement", "cash_flow" >>

RECURSIVE CleanFrom(_, _, _)
CleanFrom(f, dp, i) ==
    IF i > Len(Statements) THEN [f |-> f, exc |-> "none"]
    ELSE LET k == Statements[i]
         IN  IF k \notin f.keys THEN CleanFrom(f, dp, i + 1)
             ELSE IF f[k].isNone THEN [f |-> f, exc |-> "AttributeError"]
             ELSE CleanFrom([f EXCEPT ![k] = CleanTable(f[k], dp)], dp, i + 1)

\* _clean_data with drop's default errors="raise": a drop label that is no
\* column of a statement raises KeyError
clean_data_strict(f, dp) ==
    IF dp = {} THEN [f |-> f, exc |-> "none"]
    ELSE IF \E i \in DOMAIN Statements :
                /\ Statements[i] \in f.keys
                /\ ~f[Statements[i]].isNone
                /\ ~(dp \subseteq Range(f[Statements[i]].columns))
         THEN [f |-> f, exc |-> "KeyError"]
         ELSE CleanFrom(f, dp, 1)

clean_data(f, dp) ==
    IF dp = {} THEN [f |-> f, exc |-> "none"] ELSE CleanFrom(f, dp, 1)

(***************************************************************************)
(* What fetch_fundamentals returns: None, or a bundle of the three         *)
(* statements and the info record; the bundles are complete statements     *)
(* with at most one defect, or with two of the defects that make a ratio   *)
(* function raise.                                                         *)
(***************************************************************************)
BundleBs == UNION {BsAccounts[op] : op \in DOMAIN BsAccounts}
BundleInc == UNION {IncAccounts[op] : op \in DOMAIN IncAccounts}
BundleCf == {"Free Cash Flow"}


Bundle(cols) ==
    [isNone |-> FALSE, keys |-> FundamentalsKeys,
     balance_sheet |-> FullTable(BundleBs, cols),
     income_statement |-> FullTable(BundleInc, cols),
     cash_flow |-> FullTable(BundleCf, cols),
     info |-> FullInfo]

BundleCellAlts == {Num(0), NaN}

Def(k, t, a, p, c) == [k |-> k, t |-> t, a |-> a, p |-> p, c |-> c]

RaisingDefects ==
    {Def("none", t, "", "", NaN) : t \in Range(Statements)}
    \cup {Def("noinfo", "info", "", "", NaN), Def("nofield", "info", "profitMargins", "", NaN)}

BundleDefects(cols) ==
    {Def("cell", "balance_sheet", a, p, c) : a \in BundleBs, p \in Range(cols), c \in BundleCellAlts}
    \cup {Def("cell", "income_statement", a, p, c) :
              a \in BundleInc, p \in Range(cols), c \in BundleCellAlts}
    \cup {Def("row", "balance_sheet", a, "", NaN) : a \in BundleBs}
    \cup {Def("row", "income_statement", a, "", NaN) : a \in BundleInc}
    \cup {Def("col", t, "", p, NaN) : t \in Range(Statements), p \in Range(cols)}
    \cup {Def("field", "info", "profitMargins", "", NaN)}
    \cup RaisingDefects

ApplyBundleDefect(f, d) ==
    CASE d.k = "noop" -> f
      [] d.k = "noinfo" -> [f EXCEPT !.info = NoneInfo]
      [] d.k = "nofield" ->
             IF f.info.isNone THEN f
             ELSE [f EXCEPT !.info.fields =
                       [k \in (DOMAIN f.info.fields) \ {d.a} |-> f.info.fields[k]]]
      [] d.k = "field" ->
             IF f.info.isNone THEN f ELSE [f EXCEPT !.info.fields[d.a] = d.c]
      [] OTHER -> [f EXCEPT ![d.t] = ApplyDefect(d.t, f[d.t], d)]

FetchResults ==
    {NoFundamentals}
    \cup UNION {{ApplyBundleDefect(Bundle(PeriodsUpTo(n)), d) :
                    d \in BundleDefects(PeriodsUpTo(n)) \cup {Noop}} : n \in 0..MaxPeriods}
    \cup {ApplyBundleDefect(ApplyBundleDefect(Bundle(AllPeriods), d1), d2) :
              d1 \in RaisingDefects, d2 \in RaisingDefects}

\* the drop_periods a calculator is constructed with
DropChoices == {{}, {Labels[2]}, {Labels[1], UnknownDate}}

Answers(op, exc, df) == ret' = [op |-> op, exc |-> exc, df |-> df]

\* fetch_data(): self.fundamentals is assigned before the None test and before
\* _clean_data, so it keeps what was fetched when either of them raises
FetchData ==
    \E f \in FetchResults :
        /\ IF f.isNone
           THEN /\ fundamentals' = NoFundamentals
                /\ Answers("fetch_data", "Exception", NoDataFrame)
           ELSE LET c == clean_data(f, drop_periods)
                IN  /\ fundamentals' = c.f
                    /\ Answers("fetch_data", c.exc, NoDataFrame)
        /\ UNCHANGED <<call, result, drop_periods>>

\* calculate_ratios dropping the oldest period of the statements it reads
CalculateRatios_dropping_oldest ==
    /\ ~fundamentals.isNone
    /\ Answers("calculate_ratios", "none", calculate_ratios(fundamentals))
    /\ fundamentals' = clean_data(fundamentals, {AllPeriods[MaxPeriods]}).f
    /\ UNCHANGED <<call, result, drop_periods>>

\* calculate_ratios()
CalculateRatios ==
    /\ IF fundamentals.isNone
       THEN Answers("calculate_ratios", "Exception", NoDataFrame)
       ELSE Answers("calculate_ratios", "none", calculate_ratios(fundamentals))
    /\ UNCHANGED <<call, result, drop_periods, fundamentals>>

InitCalc ==
    /\ call = NoCall
    /\ result = Ok(Null)
    /\ drop_periods \in DropChoices
    /\ fundamentals = NoFundamentals
    /\ ret = NoRet

NextCalc ==
    \/ FetchData
    \/ CalculateRatios

SpecCalc == InitCalc /\ [][NextCalc]_vars

(***************************************************************************)
(* Health Scorer: FinancialRatioCalculator.calculate_overall_score.        *)
(* A table has a dtype: in a float64 table the normalised value            *)
(* (current - min) / (max - min) is a numpy float, whose division by zero  *)
(* returns inf or nan; in an object table it is a Python float, whose      *)
(* division by zero raises.                                                *)
(***************************************************************************)
HigherBetter ==
    {"Current Ratio", "Quick Ratio", "Cash Ratio", "Defensive Interval Ratio",
     "Interest Coverage Ratio", "Return on Assets (ROA)", "Return on Equity (ROE)",
     "Return on Total Capital (ROTC)", "Return on Common Equity (ROCE)",
     "Inventory Turnover", "Receivables Turnover", "Payables Turnover",
     "Working Capital Turnover", "Fixed Asset Turnover", "Total Asset Turnover"}

LowerBetter ==
    {"Debt-to-Assets Ratio", "Financial Leverage Ratio", "Days of Inventory on Hand (DOH)",
     "Days of Sales Outstanding (DSO)", "Number of Days of Payables"}

\* the keys of the directions dict
Directions == HigherBetter \cup LowerBetter

\* a Python float constant, and a computed value of the table's number type
PyFloat(v) == [v |-> v, np |-> FALSE]
Computed(df, v) == [v |-> v, np |-> df.dtype = "float64"]

\* Python's min(a, b) and max(a, b): b when b < a (b > a), else a; a comparison
\* with NaN is false
PyMin(a, b) == IF FLt(b.v, a.v) THEN b ELSE a
PyMax(a, b) == IF FLt(a.v, b.v) THEN b ELSE a

\* df_ratios.loc[ratio].dropna(): the periods whose value is not null
hist_values(df, r) == {d \in Range(df.columns) : ~IsNull(df.vals[r][d])}

min_hist(df, r) ==
    LET h == {df.vals[r][d] : d \in hist_values(df, r)}
    IN  CHOOSE v \in h : \A w \in h : FLe(v, w)

max_hist(df, r) ==
    LET h == {df.vals[r][d] : d \in hist_values(df, r)}
    IN  CHOOSE v \in h : \A w \in h : FLe(w, v)

\* the score of a lower-is-better ratio computed as if higher were better
ratio_score_ignoring_direction(df, r) ==
    IF Cardinality(hist_values(df, r)) < 2 THEN PyFloat(Half)
    ELSE LET current == df.vals[r][df.columns[1]]
             mn == min_hist(df, r)
             mx == max_hist(df, r)
         IN  IF mx = mn
             THEN IF FLe(mn, current) THEN PyFloat(One) ELSE PyFloat(Zero)
             ELSE PyMin(PyFloat(One), Computed(df, FDiv(FSub(current, mn), FSub(mx, mn))))

\* the loop body giving the neutral score to a ratio whose current value is null
ratio_score_null_current_neutral(df, r) ==
    IF Cardinality(hist_values(df, r)) < 2 THEN PyFloat(Half)
    ELSE LET current == df.vals[r][df.columns[1]]
             mn == min_hist(df, r)
             mx == max_hist(df, r)
             x == FDiv(FSub(current, mn), FSub(mx, mn))
         IN  IF IsNull(current) THEN PyFloat(Half)
             ELSE IF mx = mn
             THEN IF r \in HigherBetter
                  THEN IF FLe(mn, current) THEN PyFloat(One) ELSE PyFloat(Zero)
                  ELSE IF FLe(current, mn) THEN PyFloat(One) ELSE PyFloat(Zero)
             ELSE IF r \in HigherBetter
                  THEN PyMin(PyFloat(One), Computed(df, x))
                  ELSE PyMax(PyFloat(Zero), Computed(df, FSub(One, x)))

\* the body of the loop over df_ratios.index, for a ratio of the directions dict
ratio_score(df, r) ==
    IF Cardinality(hist_values(df, r)) < 2 THEN PyFloat(Half)
    ELSE LET current == df.vals[r][df.columns[1]]
             mn == min_hist(df, r)
             mx == max_hist(df, r)
             x == FDiv(FSub(current, mn), FSub(mx, mn))
         IN  IF mx = mn
             THEN IF r \in HigherBetter
                  THEN IF FLe(mn, current) THEN PyFloat(One) ELSE PyFloat(Zero)
                  ELSE IF FLe(current, mn) THEN PyFloat(One) ELSE PyFloat(Zero)
             ELSE IF r \in HigherBetter
                  THEN PyMin(PyFloat(One), Computed(df, x))
                  ELSE PyMax(PyFloat(Zero), Computed(df, FSub(One, x)))

\* the loop skipping a ratio whose series has no non-null value
scores_of_skipping_null(df) ==
    [r \in {x \in Range(df.index) \cap Directions : hist_values(df, x) # {}} |->
        ratio_score(df, r)]

\* the loop leaving after the first row of the table
scores_of_first_row(df) ==
    [r \in (IF df.index = <<>> THEN {} ELSE {df.index[1]}) \cap Directions |->
        ratio_score(df, r)]

\* the scores dict after the loop
scores_of(df) == [r \in Range(df.index) \cap Directions |-> ratio_score(df, r)]

RECURSIVE SumInt(_, _)
SumInt(S, w) ==
    IF S = {} THEN 0
    ELSE LET r == CHOOSE x \in S : TRUE IN w[r] + SumInt(S \ {r}, w)

RECURSIVE SumWeighted(_, _, _)
SumWeighted(S, w, s) ==
    IF S = {} THEN Zero
    ELSE LET r == CHOOSE x \in S : TRUE
         IN  FAdd(FMul(FromInt(w[r]), s[r].v), SumWeighted(S \ {r}, w, s))

Sign(q) == IF q[1] > 0 THEN "inf" ELSE IF q[1] < 0 THEN "-inf" ELSE "nan"

\* the weighted sum returned as it is, not divided by total_weight
final_score_undivided(s, weights) ==
    LET w == IF weights = NoWeights THEN [r \in DOMAIN s |-> 1] ELSE weights
        used == DOMAIN s \cap DOMAIN w
    IN  Ok(FMul(SumWeighted(used, w, s), FromInt(100)))

\* weights = weights or {ratio: 1.0 for ratio in scores}; total_weight;
\* final_score * 100.  A non-finite return is a null val with kind inf, -inf or nan
final_score(s, weights) ==
    LET w == IF weights = NoWeights THEN [r \in DOMAIN s |-> 1] ELSE weights
        total_weight == SumInt(DOMAIN w, w)
        used == DOMAIN s \cap DOMAIN w
        num == SumWeighted(used, w, s)
    IN  IF total_weight = 0
        THEN IF \E r \in used : s[r].np
             THEN [Ok(Null) EXCEPT !.kind = Sign(num)]
             ELSE Raise("ZeroDivisionError", "DivisionByZero")
        ELSE Ok(FMul(FDiv(num, FromInt(total_weight)), FromInt(100)))

\* calculate_overall_score(df_ratios, weights); the per-ratio scores are kept
\* in series
calculate_overall_score(df, weights) ==
    IF df.columns = <<>> THEN Raise("IndexError", "NoColumns")
    ELSE LET s == scores_of(df)
         IN  [final_score(s, weights) EXCEPT !.series = [r \in DOMAIN s |-> s[r].v]]

(***************************************************************************)
(* The tables and weights the scorer is called with: rows of a             *)
(* higher-is-better ratio, a lower-is-better ratio and a ratio that is not *)
(* scored, every cell BaseVal, disturbed in at most two places (a cell set *)
(* to another value or to null, a row set to null).                        *)
(***************************************************************************)
ScoreNames == << "Current Ratio", "Debt-to-Assets Ratio", "DuPont ROE" >>

ScoreTable(S, cols, dtype) ==
    [index |-> SelectSeq(ScoreNames, LAMBDA x : x \in S),
     columns |-> cols,
     vals |-> [r \in S |-> [d \in Range(cols) |-> FromInt(BaseVal)]],
     dtype |-> dtype]

ScoreCellAlts == ({FromInt(v) : v \in 0..MaxVal} \cup {Null}) \ {FromInt(BaseVal)}

ScoreDefects(S, cols) ==
    {[k |-> "cell", r |-> r, d |-> d, c |-> c] :
         r \in S \cap Directions, d \in Range(cols), c \in ScoreCellAlts}
    \cup {[k |-> "nullrow", r |-> r, d |-> "", c |-> Null] : r \in S \cap Directions}
    \cup {[k |-> "noop", r |-> "", d |-> "", c |-> Null]}

ApplyScoreDefect(df, x) ==
    CASE x.k = "cell" -> [df EXCEPT !.vals[x.r][x.d] = x.c]
      [] x.k = "nullrow" -> [df EXCEPT !.vals[x.r] = [d \in Range(df.columns) |-> Null]]
      [] OTHER -> df

Reverse(q) == [i \in DOMAIN q |-> q[Len(q) + 1 - i]]

\* the rows in the order of ScoreNames, or in the reverse order
RowOrders(df) == {df, [df EXCEPT !.index = Reverse(df.index)]}

ScoreTables ==
    UNION {UNION {RowOrders(ApplyScoreDefect(
                               ApplyScoreDefect(ScoreTable(S, PeriodsUpTo(n), t), x1), x2)) :
                     x1 \in ScoreDefects(S, PeriodsUpTo(n)),
                     x2 \in ScoreDefects(S, PeriodsUpTo(n))} :
           S \in SUBSET Range(ScoreNames), n \in 0..MaxPeriods, t \in {"float64", "object"}}

WeightNames == {"Current Ratio", "Debt-to-Assets Ratio", "Quick Ratio"}

WeightVals == {-1, 0, 1, 2}

\* None or {} (NoWeights), or a weight for some of the names, at most one of them not 1
WeightMaps ==
    {w \in UNION {[S -> WeightVals] : S \in SUBSET WeightNames} :
        Cardinality({r \in DOMAIN w : w[r] # 1}) <= 1}

CalculateOverallScore ==
    /\ call.op = "none"
    /\ \E df \in ScoreTables, w \in WeightMaps :
          /\ call' = [NoCall EXCEPT !.op = "calculate_overall_score", !.df = df, !.weights = w]
          /\ result' = calculate_overall_score(df, w)
    /\ UNCHANGED <<drop_periods, fundamentals, ret>>

InitScore ==
    /\ call = NoCall
    /\ result = Ok(Null)
    /\ drop_periods = {}
    /\ fundamentals = NoFundamentals
    /\ ret = NoRet

NextScore == CalculateOverallScore

SpecScore == InitScore /\ [][NextScore]_vars

(***************************************************************************)
(* A caller's session: the caller holds a fetched bundle (fundamentals),   *)
(* a weight mapping (call.weights) and the table calculate_ratios returned *)
(* (ret.df), and calls the ratio functions, calculate_ratios and           *)
(* calculate_overall_score on them in any order.  None of the functions    *)
(* assigns to an argument or calls a mutating method on one, so every      *)
(* action leaves the objects it was passed as they are.                    *)
(***************************************************************************)
FrameBundles ==
    UNION {{ApplyBundleDefect(Bundle(PeriodsUpTo(n)), d) :
               d \in RaisingDefects \cup {Noop}
                     \cup {Def("cell", "balance_sheet", "Current Liabilities",
                               Labels[1], c) : c \in BundleCellAlts}} :
           n \in 1..MaxPeriods}

\* the weights the caller holds: none, a weight for one ratio, or for every name
FrameWeights ==
    {NoWeights, [r \in {"Current Ratio"} |-> 2], [r \in WeightNames |-> 1]}

FrameDates == {NoDate, Labels[1], UnknownDate}

InitFrame ==
    /\ call \in {[NoCall EXCEPT !.weights = w] : w \in FrameWeights}
    /\ result = Ok(Null)
    /\ drop_periods = {}
    /\ fundamentals \in FrameBundles
    /\ ret = NoRet

\* a ratio function called on the caller's statements: the all-periods form of
\* a liquidity ratio, the single-period form of the others
CallRatio ==
    \E i \in DOMAIN RatioTable, date \in FrameDates :
        LET op == RatioTable[i].op
        IN  /\ op \in LiquidityOps => date = NoDate
            /\ call' = [call EXCEPT !.op = op, !.date = date]
            /\ result' = IF op \in LiquidityOps
                         THEN RatioCall(op, fundamentals)
                         ELSE SinglePeriod(op, fundamentals.income_statement,
                                           fundamentals.balance_sheet, date)
            /\ UNCHANGED <<drop_periods, fundamentals, ret>>

CallDuPont ==
    \E date \in FrameDates :
        /\ call' = [call EXCEPT !.op = "dupont_analysis", !.date = date]
        /\ result' = dupont_analysis_single(fundamentals.income_statement,
                                            fundamentals.balance_sheet,
                                            fundamentals.info, date)
        /\ UNCHANGED <<drop_periods, fundamentals, ret>>

CallMarketRatio ==
    \E op \in {"price_to_cash_flow_ratio", "retention_rate"} :
        /\ call' = [call EXCEPT !.op = op, !.date = NoDate]
        /\ result' = IF op = "retention_rate"
                     THEN retention_rate(fundamentals.info)
                     ELSE price_to_cash_flow_ratio(fundamentals.info)
        /\ UNCHANGED <<drop_periods, fundamentals, ret>>

\* calculate_overall_score on the table calculate_ratios returned, with the
\* caller's weights or without weights; the table's number type is either one
ScoreRatios ==
    /\ ret.op = "calculate_ratios"
    /\ ret.exc = "none"
    /\ \E t \in {"float64", "object"}, w \in {NoWeights, call.weights} :
           /\ call' = [call EXCEPT !.op = "calculate_overall_score", !.date = NoDate]
           /\ result' = calculate_overall_score(
                            [index |-> ret.df.index, columns |-> ret.df.columns,
                             vals |-> ret.df.vals, dtype |-> t], w)
    /\ UNCHANGED <<drop_periods, fundamentals, ret>>

NextFrame ==
    \/ CallRatio
    \/ CallDuPont
    \/ CallMarketRatio
    \/ CalculateRatios
    \/ ScoreRatios

SpecFrame == InitFrame /\ [][NextFrame]_vars

(***************************************************************************)
(* What the claims speak of, read off the arguments of the call.           *)
(***************************************************************************)
\* the table whose columns name the periods of a call
RefTable(c) == IF c.op = "interest_coverage_ratio" THEN c.inc ELSE c.bs

\* both tables the ratio reads were passed (neither is None)
TablesPresent(c) ==
    /\ BsAccounts[c.op] # {} => ~c.bs.isNone
    /\ IncAccounts[c.op] # {} => ~c.inc.isNone

\* a required account name is missing from its table
AccountMissing(c) ==
    \/ \E a \in BsAccounts[c.op] : a \notin DOMAIN c.bs.rows
    \/ \E a \in IncAccounts[c.op] : a \notin DOMAIN c.inc.rows

\* the requested period is a column of the table (date omitted: the first column)
PeriodRequested(c) ==
    \/ c.date = NoDate /\ RefTable(c).columns # <<>>
    \/ c.date \in Range(RefTable(c).columns)

ReqDate(c) == IF c.date = NoDate THEN RefTable(c).columns[1] ELSE c.date

\* the requested period has a column right after it
HasFollowing(c) == IndexOf(c.bs.columns, ReqDate(c)) < Len(c.bs.columns)
Following(c) == c.bs.columns[IndexOf(c.bs.columns, ReqDate(c)) + 1]

IsNumber(t, a, d) == Has(t, a, d) /\ At(t, a, d).t = "num"
V(t, a, d) == At(t, a, d).v

\* every line item of the requested period is present and numeric
ItemsNumeric(c) ==
    /\ TablesPresent(c)
    /\ PeriodRequested(c)
    /\ \A a \in BsAccounts[c.op] : IsNumber(c.bs, a, ReqDate(c))
    /\ \A a \in IncAccounts[c.op] : IsNumber(c.inc, a, ReqDate(c))
    /\ c.op \in AveragingOps \cup DaysOfOps =>
          /\ HasFollowing(c)
          /\ \A a \in BsAccounts[c.op] : IsNumber(c.bs, a, Following(c))

\* the denominator of the ratio's formula (twice the average for the averaging
\* ratios), from the cells of the requested period
Denominator(c) ==
    LET d == ReqDate(c)
    IN  CASE c.op \in {"debt_to_assets_ratio", "return_on_assets", "total_asset_turnover"} ->
                 V(c.bs, "Total Assets", d)
          [] c.op \in {"financial_leverage_ratio", "return_on_equity",
                       "return_on_common_equity"} ->
                 V(c.bs, "Total Equity Gross Minority Interest", d)
          [] c.op = "interest_coverage_ratio" -> V(c.inc, "Interest Expense", d)
          [] c.op = "return_on_total_capital" ->
                 V(c.bs, "Total Debt", d) + V(c.bs, "Total Equity Gross Minority Interest", d)
          [] c.op = "working_capital_turnover" ->
                 V(c.bs, "Current Assets", d) - V(c.bs, "Current Liabilities", d)
          [] c.op = "fixed_asset_turnover" -> V(c.bs, "Net PPE", d)
          [] c.op = "inventory_turnover" ->
                 V(c.bs, "Inventory", d) + V(c.bs, "Inventory", Following(c))
          [] c.op = "receivables_turnover" ->
                 V(c.bs, "Accounts Receivable", d) + V(c.bs, "Accounts Receivable", Following(c))
          [] c.op = "payables_turnover" ->
                 V(c.bs, "Accounts Payable", d) + V(c.bs, "Accounts Payable", Following(c))

\* period z of an all-periods liquidity call has a denominator that is exactly zero
LiquidityZeroAt(c, z) ==
    IF c.op = "defensive_interval_ratio"
    THEN /\ ~c.inc.isNone
         /\ IsNumber(c.inc, "Operating Expense", z)
         /\ IsNumber(c.inc, "Depreciation And Amortization In Income Statement", z)
         /\ V(c.inc, "Operating Expense", z) =
              V(c.inc, "Depreciation And Amortization In Income Statement", z)
    ELSE IsNumber(c.bs, "Current Liabilities", z) /\ V(c.bs, "Current Liabilities", z) = 0

\* the same call with the zero denominator of period z replaced by a non-zero one
LiquidityWithoutZero(c, z) ==
    IF c.op = "defensive_interval_ratio"
    THEN defensive_interval_ratio(c.bs,
             SetCell(c.inc, "Operating Expense", z,
                     Num(V(c.inc, "Depreciation And Amortization In Income Statement", z) + 1)))
    ELSE LET bs1 == SetCell(c.bs, "Current Liabilities", z, Num(1))
         IN  CASE c.op = "current_ratio" -> current_ratio(bs1)
               [] c.op = "quick_ratio" -> quick_ratio(bs1)
               [] c.op = "cash_ratio" -> cash_ratio(bs1)

(***************************************************************************)
(* C1. In the all-periods liquidity ratios a period whose denominator is   *)
(* exactly zero gets a null entry; the call does not fail, and every other *)
(* period has the entry it has when that denominator is not zero.          *)
(***************************************************************************)
C1_ZeroDenominatorNullForThatPeriodOnly ==
    call.op \in LiquidityOps =>
        \A z \in Range(call.bs.columns) :
            LiquidityZeroAt(call, z) =>
                /\ ~IsRaise(result)
                /\ DOMAIN result.series = Range(call.bs.columns)
                /\ result.series[z] = Null
                /\ \A p \in Range(call.bs.columns) \ {z} :
                       result.series[p] = LiquidityWithoutZero(call, z).series[p]

C1_Witness ==
    /\ call.op = "current_ratio"
    /\ \E z, p \in Range(call.bs.columns) :
          /\ LiquidityZeroAt(call, z)
          /\ result.series[z] = Null
          /\ p # z
          /\ ~IsNull(result.series[p])

(***************************************************************************)
(* C2. A single-period ratio whose line items for the requested period are *)
(* all present and numeric and whose denominator is exactly zero fails     *)
(* with DivisionByZero (ZeroDivisionError).                                *)
(***************************************************************************)
C2_ZeroDenominatorRaises ==
    (call.op \in PlainOps \cup AveragingOps /\ ItemsNumeric(call) /\ Denominator(call) = 0)
        => result = DivisionByZero

C2_Witness ==
    /\ call.op = "inventory_turnover"
    /\ Len(call.bs.columns) = MaxPeriods
    /\ call.date = call.bs.columns[2]
    /\ ItemsNumeric(call)
    /\ Denominator(call) = 0
    /\ result.exc = "ZeroDivisionError"

Calculated == ret.op = "calculate_ratios" /\ ~fundamentals.isNone

\* ratio i of RatioTable as a call on the fetched statements
BundleCall(i) ==
    [op |-> RatioTable[i].op, bs |-> fundamentals.balance_sheet,
     inc |-> fundamentals.income_statement]

HasRow(df, n) == n \in Range(df.index)

\* row n of the table carries series s under the period labels ks
RowIs(df, n, ks, s) ==
    /\ HasRow(df, n)
    /\ \A d \in Range(ks) : d \in Range(df.columns) /\ df.vals[n][d] = s[d]

AllNullRow(df, n) ==
    /\ HasRow(df, n)
    /\ \A d \in Range(df.columns) : df.vals[n][d] = Null

(***************************************************************************)
(* C4. calculate_ratios never aborts because a ratio fails: it returns a   *)
(* table, and every ratio whose computation did not raise is a row of the  *)
(* table under its display name, with the series its function returned     *)
(* (for DuPont, the four component rows of the records it returned).       *)
(***************************************************************************)
C4_AggregatorNeverAborts ==
    Calculated =>
        /\ ret.exc = "none"
        /\ \A i \in DOMAIN RatioTable :
              LET o == RatioCall(RatioTable[i].op, fundamentals)
              IN  ~IsRaise(o) => RowIs(ret.df, RatioTable[i].name, o.keys, o.series)
        /\ LET o == DuPontCall(fundamentals)
           IN  ~IsRaise(o) =>
                  /\ RowIs(ret.df, "DuPont ROE", o.keys,
                           [d \in Range(o.keys) |-> o.series[d].roe])
                  /\ RowIs(ret.df, "DuPont Net Profit Margin", o.keys,
                           [d \in Range(o.keys) |-> o.series[d].net_profit_margin])
                  /\ RowIs(ret.df, "DuPont Asset Turnover", o.keys,
                           [d \in Range(o.keys) |-> o.series[d].asset_turnover])
                  /\ RowIs(ret.df, "DuPont Financial Leverage", o.keys,
                           [d \in Range(o.keys) |-> o.series[d].financial_leverage])

C4_Witness ==
    /\ Calculated
    /\ ret.exc = "none"
    /\ IsRaise(RatioCall("current_ratio", fundamentals))
    /\ ~HasRow(ret.df, "Current Ratio")
    /\ ~IsRaise(RatioCall("interest_coverage_ratio", fundamentals))
    /\ Len(fundamentals.income_statement.columns) = MaxPeriods
    /\ HasRow(ret.df, "Interest Coverage Ratio")
    /\ \A d \in Range(ret.df.columns) : ret.df.vals["Interest Coverage Ratio"][d] = One

Scored == call.op = "calculate_overall_score"

\* the call returned a number between 0 and 100
ScoreInRange ==
    /\ ~IsRaise(result)
    /\ ~IsNull(result.val)
    /\ FLe(Zero, result.val)
    /\ FLe(result.val, FromInt(100))

\* the rows of the table that are in the directionality table
DirectionalRows(df) == Range(df.index) \cap Directions

\* the series of row r is entirely null
AllNull(df, r) == \A d \in Range(df.columns) : IsNull(df.vals[r][d])

\* the table without row r
WithoutRow(df, r) ==
    [df EXCEPT !.index = SelectSeq(df.index, LAMBDA x : x # r),
               !.vals = [x \in (DOMAIN df.vals) \ {r} |-> df.vals[x]]]

RECURSIVE SumScores(_, _)
SumScores(S, s) ==
    IF S = {} THEN Zero
    ELSE LET r == CHOOSE x \in S : TRUE IN FAdd(s[r], SumScores(S \ {r}, s))

RECURSIVE SumProducts(_, _, _)
SumProducts(S, w, s) ==
    IF S = {} THEN Zero
    ELSE LET r == CHOOSE x \in S : TRUE
         IN  FAdd(FMul(FromInt(w[r]), s[r]), SumProducts(S \ {r}, w, s))

RECURSIVE SumWeights(_, _)
SumWeights(S, w) ==
    IF S = {} THEN 0
    ELSE LET r == CHOOSE x \in S : TRUE IN w[r] + SumWeights(S \ {r}, w)

C7_WeightsOverScoredOnly ==
    (/\ Scored
     /\ call.df.columns # <<>>
     /\ call.weights # NoWeights
     /\ SumWeights(DOMAIN result.series \cap DOMAIN call.weights, call.weights) # 0)
        => LET used == DOMAIN result.series \cap DOMAIN call.weights
           IN  /\ ~IsRaise(result)
               /\ result.val =
                    FMul(FromInt(100),
                         FDiv(SumProducts(used, call.weights, result.series),
                              FromInt(SumWeights(used, call.weights))))

(***************************************************************************)
(* C8. calculate_overall_score with the default weights returns a score    *)
(* for every table: an empty one, one with no ratio of the directionality  *)
(* table, one whose scored ratios are entirely null.                       *)
(***************************************************************************)
C8_ScorerNeverRaises ==
    (Scored /\ call.weights = NoWeights) => ~IsRaise(result)

(***************************************************************************)
(* C9 as stated. A ratio of the directionality table that is a row of the  *)
(* table with an entirely null series is excluded from scoring: the call   *)
(* gives what it gives on the table without that row.                      *)
(***************************************************************************)
C9_AllNullRowAsIfAbsent ==
    Scored =>
        \A r \in DirectionalRows(call.df) :
            AllNull(call.df, r) =>
                LET other == calculate_overall_score(WithoutRow(call.df, r), call.weights)
                IN  result.exc = other.exc /\ result.val = other.val

(***************************************************************************)
(* C9 amended. A ratio of the directionality table that is a row of the    *)
(* table with an entirely null series is scored: it gets the neutral score *)
(* 0.5 and counts with its weight, so under the default weights the score  *)
(* is 100 x (0.5 + the sum of the other scores) / (the number of scored    *)
(* ratios, this one included).                                             *)
(***************************************************************************)
C9_AllNullRowScoresNeutral ==
    (Scored /\ call.df.columns # <<>>) =>
        \A r \in DirectionalRows(call.df) :
            AllNull(call.df, r) =>
                /\ r \in DOMAIN result.series
                /\ result.series[r] = Half
                /\ call.weights = NoWeights =>
                      /\ ~IsRaise(result)
                      /\ FMul(result.val, FromInt(Cardinality(DOMAIN result.series))) =
                           FMul(FromInt(100),
                                FAdd(Half, SumScores((DOMAIN result.series) \ {r},
                                                     result.series)))

C9_Witness ==
    /\ Scored
    /\ call.weights = NoWeights
    /\ Len(call.df.columns) = MaxPeriods
    /\ "Debt-to-Assets Ratio" \in DirectionalRows(call.df)
    /\ AllNull(call.df, "Debt-to-Assets Ratio")
    /\ DOMAIN result.series = {"Current Ratio", "Debt-to-Assets Ratio"}
    /\ result.series["Current Ratio"] = One
    /\ result.val = FromInt(75)

(***************************************************************************)
(* C10. For every ratio of the directionality table whose most recent      *)
(* value is not null, the score is the reference: 0.5 with fewer than two  *)
(* non-null values; with max = min, 1.0 if the current value is at or      *)
(* beyond the favourable bound and 0.0 otherwise; otherwise                *)
(* clamp((current-min)/(max-min), 0, 1) for higher-is-better and           *)
(* clamp(1-(current-min)/(max-min), 0, 1) for lower-is-better.             *)
(***************************************************************************)
Clamp(v, lo, hi) == IF FLt(v, lo) THEN lo ELSE IF FLt(hi, v) THEN hi ELSE v

ReferenceScore(df, r) ==
    LET current == df.vals[r][df.columns[1]]
        mn == min_hist(df, r)
        mx == max_hist(df, r)
        x == FDiv(FSub(current, mn), FSub(mx, mn))
    IN  IF Cardinality(hist_values(df, r)) < 2 THEN Half
        ELSE IF mx = mn
             THEN IF r \in HigherBetter
                  THEN IF FLe(mx, current) THEN One ELSE Zero
                  ELSE IF FLe(current, mn) THEN One ELSE Zero
             ELSE IF r \in HigherBetter
                  THEN Clamp(x, Zero, One)
                  ELSE Clamp(FSub(One, x), Zero, One)

C10_ScoreIsReference ==
    (Scored /\ call.df.columns # <<>>) =>
        \A r \in DirectionalRows(call.df) :
            ~IsNull(call.df.vals[r][call.df.columns[1]]) =>
                /\ r \in DOMAIN result.series
                /\ result.series[r] = ReferenceScore(call.df, r)

C10_Witness ==
    /\ Scored
    /\ Len(call.df.columns) = MaxPeriods
    /\ "Debt-to-Assets Ratio" \in DirectionalRows(call.df)
    /\ ~IsNull(call.df.vals["Debt-to-Assets Ratio"][call.df.columns[1]])
    /\ min_hist(call.df, "Debt-to-Assets Ratio") = Zero
    /\ max_hist(call.df, "Debt-to-Assets Ratio") = FromInt(MaxVal)
    /\ result.series["Debt-to-Assets Ratio"] = Half

(***************************************************************************)
(* C11. The Health Score does not depend on the order of the rows of the   *)
(* table: the call on any permutation of the rows, with the same columns   *)
(* and the same weights, gives what the call gave.                         *)
(***************************************************************************)
RowPermutations(q) ==
    {p \in [DOMAIN q -> Range(q)] : \A i, j \in DOMAIN q : p[i] = p[j] => i = j}

InfoLookups ==
    {"price_to_cash_flow_ratio", "retention_rate",
     "price_to_earnings_ratio_from_info", "price_to_book_ratio_from_info",
     "price_to_sales_ratio_from_info", "dividend_yield_from_info",
     "dividend_payout_ratio_from_info", "debt_to_equity_ratio_from_info",
     "gross_profit_margin_from_info", "operating_profit_margin_from_info",
     "net_profit_margin_from_info"}

CompleteTable(t, accounts) ==
    /\ ~t.isNone
    /\ t.columns # <<>>
    /\ accounts \subseteq DOMAIN t.rows
    /\ \A a \in accounts : \A d \in Range(t.columns) : t.rows[a][d].t = "num"

CompleteBundle(f) ==
    /\ ~f.isNone
    /\ CompleteTable(f.balance_sheet, BundleBs)
    /\ CompleteTable(f.income_statement, BundleInc)
    /\ CompleteTable(f.cash_flow, BundleCf)
    /\ ~f.info.isNone
    /\ InfoFields \subseteq DOMAIN f.info.fields
    /\ \A k \in InfoFields : f.info.fields[k].t = "num"

TableNames == {RatioTable[i].name : i \in DOMAIN RatioTable} \cup Range(DuPontNames)

(***************************************************************************)
(* C12. On a complete and valid bundle the table built by calculate_ratios *)
(* has a row for every ratio function: the liquidity, solvency,            *)
(* profitability and activity ratios and the four DuPont components, and   *)
(* one more row for each Market ratio and info-record lookup.              *)
(***************************************************************************)
C12_TableHasEveryRatio ==
    (Calculated /\ CompleteBundle(fundamentals)) =>
        /\ TableNames \subseteq Range(ret.df.index)
        /\ Len(ret.df.index) >= Cardinality(TableNames) + Cardinality(InfoLookups)

\* what the code builds on a complete bundle: the rows of TableNames, no other
C12_TableHasOnlyStatementRatios ==
    (Calculated /\ CompleteBundle(fundamentals)) =>
        Range(ret.df.index) = TableNames

\* table t with only the period columns of keep
OnlyColumns(t, keep) == CleanTable(t, Range(t.columns) \ keep)

(***************************************************************************)
(* C13. For the averaging turnovers and their days-of derivatives in       *)
(* single-period form, with both tables passed: the call fails with        *)
(* InsufficientHistory when the balance sheet has fewer than two period    *)
(* columns, or when the requested period is its last column; for any other *)
(* requested period that is a column, the previous period is the column    *)
(* right after the requested one: the call does not fail with              *)
(* InsufficientHistory and returns what it returns on the balance sheet    *)
(* reduced to these two columns.                                           *)
(***************************************************************************)
C13_PreviousPeriodIsNextColumn ==
    (call.op \in AveragingOps \cup DaysOfOps /\ TablesPresent(call)) =>
        IF Len(call.bs.columns) < 2 THEN result = InsufficientHistory
        ELSE PeriodRequested(call) =>
                 IF ~HasFollowing(call) THEN result = InsufficientHistory
                 ELSE /\ result # InsufficientHistory
                      /\ result = SinglePeriod(call.op, call.inc,
                                      OnlyColumns(call.bs, {ReqDate(call), Following(call)}),
                                      call.date)

C13_Witness ==
    /\ call.op = "inventory_turnover"
    /\ TablesPresent(call)
    /\ Len(call.bs.columns) = MaxPeriods
    /\ call.date = call.bs.columns[2]
    /\ IsNumber(call.bs, "Inventory", call.bs.columns[1])
    /\ V(call.bs, "Inventory", call.bs.columns[1]) = 2
    /\ IsNumber(call.bs, "Inventory", call.bs.columns[3])
    /\ V(call.bs, "Inventory", call.bs.columns[3]) = 0
    /\ result = Ok(FromInt(2))

\* the series that call i of calculate_ratios returned on the fundamentals held
SeriesOfCall(i) == RatioCall(RatioTable[i].op, fundamentals)

NeedsAveraging(i) == RatioTable[i].op \in AveragingOps \cup DaysOfOps

TurnoverNumerator ==
    [inventory_turnover |-> "Cost Of Revenue",
     receivables_turnover |-> "Total Revenue",
     payables_turnover |-> "Cost Of Revenue"]

\* the balance-sheet account that is averaged
TurnoverItem ==
    [inventory_turnover |-> "Inventory",
     receivables_turnover |-> "Accounts Receivable",
     payables_turnover |-> "Accounts Payable"]

(***************************************************************************)
(* C15. Whenever Inventory, Receivables or Payables Turnover succeeds, the *)
(* result is numerator(current) / ((item(current) + item(previous)) / 2):  *)
(* the numerator is Cost Of Revenue (inventory, payables) or Total Revenue *)
(* (receivables) of the income statement at the current period, the item   *)
(* is read from the balance sheet at the current period and at the column  *)
(* after it.                                                               *)
(***************************************************************************)
C15_TurnoverIsNumeratorOverAverage ==
    (call.op \in AveragingOps /\ ~IsRaise(result)) =>
        /\ TablesPresent(call) /\ PeriodRequested(call) /\ HasFollowing(call)
        /\ IsNumber(call.inc, TurnoverNumerator[call.op], ReqDate(call))
        /\ IsNumber(call.bs, TurnoverItem[call.op], ReqDate(call))
        /\ IsNumber(call.bs, TurnoverItem[call.op], Following(call))
        /\ LET numerator == V(call.inc, TurnoverNumerator[call.op], ReqDate(call))
               current == V(call.bs, TurnoverItem[call.op], ReqDate(call))
               previous == V(call.bs, TurnoverItem[call.op], Following(call))
           IN  /\ current + previous # 0
               /\ result = Ok(FDiv(FromInt(numerator),
                                   FDiv(FromInt(current + previous), FromInt(2))))

C15_Witness ==
    /\ call.op = "inventory_turnover"
    /\ call.bs = InventoryScenario.bs
    /\ call.inc = InventoryScenario.inc
    /\ call.date = NoDate
    /\ V(call.bs, "Inventory", ReqDate(call)) = 50
    /\ V(call.bs, "Inventory", Following(call)) = 30
    /\ V(call.inc, "Cost Of Revenue", ReqDate(call)) = 120
    /\ result = Ok(FromInt(3))

\* the balance sheet of an averaging call with the item's cells of the requested
\* period and of the previous period exchanged
SwappedItem(c) ==
    LET a == TurnoverItem[c.op]
        d == ReqDate(c)
        p == Following(c)
    IN  SetCell(SetCell(c.bs, a, d, At(c.bs, a, p)), a, p, At(c.bs, a, d))

ItemPairNumeric(c) ==
    /\ TablesPresent(c) /\ PeriodRequested(c) /\ HasFollowing(c)
    /\ IsNumber(c.bs, TurnoverItem[c.op], ReqDate(c))
    /\ IsNumber(c.bs, TurnoverItem[c.op], Following(c))

(***************************************************************************)
(* C16 as stated. When Inventory, Receivables or Payables Turnover         *)
(* succeeds and the averaged item differs between the current and the      *)
(* previous period, the call on the balance sheet with the two values      *)
(* exchanged returns another result.                                       *)
(***************************************************************************)
C16_SwapChangesResult ==
    (/\ call.op \in AveragingOps /\ ~IsRaise(result) /\ ItemPairNumeric(call)
     /\ V(call.bs, TurnoverItem[call.op], ReqDate(call)) #
            V(call.bs, TurnoverItem[call.op], Following(call)))
        => SinglePeriod(call.op, call.inc, SwappedItem(call), call.date) # result

(***************************************************************************)
(* C16 amended. Exchanging the current-period and previous-period values   *)
(* of the averaged item never changes the outcome of Inventory,            *)
(* Receivables or Payables Turnover, equal or not: the average is          *)
(* symmetric in the two values.                                            *)
(***************************************************************************)
C16_SwapLeavesResult ==
    (call.op \in AveragingOps /\ ItemPairNumeric(call))
        => SinglePeriod(call.op, call.inc, SwappedItem(call), call.date) = result

C16_Witness ==
    /\ call.op = "receivables_turnover"
    /\ ItemPairNumeric(call)
    /\ call.date = NoDate
    /\ V(call.bs, "Accounts Receivable", ReqDate(call)) = 2
    /\ V(call.bs, "Accounts Receivable", Following(call)) = 0
    /\ SwappedItem(call) # call.bs
    /\ result = Ok(One)

\* the turnover each days-of function is derived from
TurnoverOf ==
    [days_of_inventory_on_hand |-> "inventory_turnover",
     days_of_sales_outstanding |-> "receivables_turnover",
     number_of_days_of_payables |-> "payables_turnover"]

(***************************************************************************)
(* C17. A single-period days-of function returns 365 / turnover when the   *)
(* turnover call on the same inputs succeeds with a non-zero value, fails  *)
(* with DivisionByZero when the turnover is exactly zero, and otherwise    *)
(* fails with the failure of the turnover call.                            *)
(***************************************************************************)
C17_DaysOfIs365OverTurnover ==
    call.op \in DaysOfOps =>
        LET turnover == SinglePeriod(TurnoverOf[call.op], call.inc, call.bs, call.date)
        IN  IF IsRaise(turnover) THEN result = turnover
            ELSE IF turnover.val = Zero THEN result = DivisionByZero
            ELSE result = Ok(FDiv(FromInt(365), turnover.val))

C17_Witness ==
    /\ call.op = "days_of_inventory_on_hand"
    /\ call.bs = InventoryScenario.bs
    /\ call.inc = InventoryScenario.inc
    /\ call.date = NoDate
    /\ inventory_turnover(call.inc, call.bs, call.date) = Ok(FromInt(3))
    /\ result = Ok(Frac(365, 3))

\* the zero-turnover case: a numerator of zero over a non-zero average
C17_ZeroTurnoverReached ==
    /\ call.op = "days_of_sales_outstanding"
    /\ receivables_turnover(call.inc, call.bs, call.date) = Ok(Zero)
    /\ result = DivisionByZero

\* the liquidity formula of call c evaluated on the cells of period d alone
LiquidityFormula(c, d) ==
    LET b(a) == FromInt(V(c.bs, a, d))
        i(a) == FromInt(V(c.inc, a, d))
    IN  CASE c.op = "current_ratio" ->
                 FDiv(b("Current Assets"), b("Current Liabilities"))
          [] c.op = "quick_ratio" ->
                 FDiv(FAdd(b("Cash Cash Equivalents And Short Term Investments"),
                           b("Accounts Receivable")),
                      b("Current Liabilities"))
          [] c.op = "cash_ratio" ->
                 FDiv(b("Cash Cash Equivalents And Short Term Investments"),
                      b("Current Liabilities"))
          [] c.op = "defensive_interval_ratio" ->
                 FDiv(FAdd(b("Cash And Cash Equivalents"), b("Accounts Receivable")),
                      FDiv(FSub(i("Operating Expense"),
                                i("Depreciation And Amortization In Income Statement")),
                           FromInt(365)))

\* the items of period d are present and numeric, and the denominator is not zero
LiquidityComputable(c, d) ==
    /\ \A a \in BsAccounts[c.op] : IsNumber(c.bs, a, d)
    /\ \A a \in IncAccounts[c.op] : IsNumber(c.inc, a, d)
    /\ ~LiquidityZeroAt(c, d)

(***************************************************************************)
(* C18. In the all-periods liquidity functions, every period whose items   *)
(* are present and numeric and whose denominator is not zero has the entry *)
(* given by the ratio's formula on that period's values alone: Current     *)
(* Assets / Current Liabilities; (Cash Cash Equivalents And Short Term     *)
(* Investments + Accounts Receivable) / Current Liabilities; Cash Cash     *)
(* Equivalents And Short Term Investments / Current Liabilities; (Cash And *)
(* Cash Equivalents + Accounts Receivable) / ((Operating Expense -         *)
(* Depreciation And Amortization) / 365).                                  *)
(***************************************************************************)
C18_LiquidityEntryIsFormula ==
    (call.op \in LiquidityOps /\ TablesPresent(call)) =>
        /\ ~IsRaise(result)
        /\ \A d \in Range(call.bs.columns) :
               LiquidityComputable(call, d) =>
                   /\ d \in DOMAIN result.series
                   /\ result.series[d] # Null
                   /\ result.series[d] = LiquidityFormula(call, d)

C18_Witness ==
    /\ call.op = "current_ratio"
    /\ call.bs = CurrentRatioScenario.bs
    /\ ~IsRaise(result)
    /\ result.keys = PeriodsUpTo(2)
    /\ result.series[Labels[1]] = FromInt(2)
    /\ result.series[Labels[2]] = Frac(3, 2)

(***************************************************************************)
(* The DuPont analysis, read off the arguments of the call.                *)
(***************************************************************************)
DuPontCalled == call.op = "dupont_analysis"

MarginMissing(c) == ~c.info.isNone /\ "profitMargins" \notin DOMAIN c.info.fields

(***************************************************************************)
(* C19. Single-period dupont_analysis returns a record with exactly the    *)
(* keys roe, net_profit_margin, asset_turnover and financial_leverage;     *)
(* roe, asset_turnover and financial_leverage are the results of           *)
(* return_on_equity, total_asset_turnover and financial_leverage_ratio on  *)
(* the same tables and period, net_profit_margin is the profitMargins      *)
(* value of the info record; with an info record that lacks profitMargins  *)
(* the call fails with MissingAccount whatever the tables are.             *)
(***************************************************************************)
C19_DuPontComponents ==
    DuPontCalled =>
        /\ MarginMissing(call) => result = MissingAccount
        /\ ~IsRaise(result) =>
               /\ Range(result.keys) = Range(DuPontKeys)
               /\ Len(result.keys) = Cardinality(Range(DuPontKeys))
               /\ DOMAIN result.series = Range(DuPontKeys)
               /\ result.series.roe # Null
               /\ Ok(result.series.roe) = return_on_equity(call.inc, call.bs, call.date)
               /\ Ok(result.series.asset_turnover) =
                      total_asset_turnover(call.inc, call.bs, call.date)
               /\ Ok(result.series.financial_leverage) =
                      financial_leverage_ratio(call.bs, call.date)
               /\ ~call.info.isNone /\ "profitMargins" \in DOMAIN call.info.fields
               /\ result.series.net_profit_margin =
                      InfoValue(call.info.fields["profitMargins"])

C19_Witness ==
    /\ DuPontCalled
    /\ ~IsRaise(result)
    /\ call.date = NoDate
    /\ Len(call.bs.columns) = MaxPeriods
    /\ call.info.fields["profitMargins"] = Num(2)
    /\ V(call.bs, "Total Assets", ReqDate(call)) = 2
    /\ result.series.net_profit_margin = FromInt(2)
    /\ result.series.asset_turnover = Frac(1, 2)
    /\ result.series.financial_leverage = FromInt(2)
    /\ result.series.roe = One

\* the margin is looked up before the tables: no margin and no tables
C19_MissingMarginNoTables ==
    /\ DuPontCalled
    /\ MarginMissing(call)
    /\ call.bs.isNone /\ call.inc.isNone
    /\ result = MissingAccount

\* the analysis succeeded and none of its four components is null
DuPontComplete ==
    /\ DuPontCalled
    /\ ~IsRaise(result)
    /\ \A k \in Range(DuPontKeys) : result.series[k] # Null

\* net_profit_margin x asset_turnover x financial_leverage of a returned record
DuPontProduct(r) ==
    FMul(r.net_profit_margin, FMul(r.asset_turnover, r.financial_leverage))

(***************************************************************************)
(* C20 negated: the DuPont identity as an invariant.  Whenever the         *)
(* analysis succeeds with all components non-null, roe is the product of   *)
(* the three other components.                                             *)
(***************************************************************************)
C20_IdentityAlwaysHolds ==
    DuPontComplete => result.series.roe = DuPontProduct(result.series)

C21_RoceIsRoe ==
    /\ call.op = "return_on_common_equity" =>
           result = return_on_equity(call.inc, call.bs, call.date)
    /\ call.op = "return_on_equity" =>
           result = return_on_common_equity(call.inc, call.bs, call.date)

C21_Witness ==
    /\ call.op = "return_on_common_equity"
    /\ ItemsNumeric(call)
    /\ V(call.inc, "Net Income From Continuing Operation Net Minority Interest",
         ReqDate(call)) = 0
    /\ V(call.bs, "Total Equity Gross Minority Interest", ReqDate(call)) = 2
    /\ result = Ok(Zero)
    /\ return_on_equity(call.inc, call.bs, call.date) = Ok(Zero)

\* the two functions agree on a failure as well
C21_SameFailureReached ==
    /\ call.op = "return_on_common_equity"
    /\ result = DivisionByZero
    /\ return_on_equity(call.inc, call.bs, call.date) = DivisionByZero

SinglePeriodOps == PlainOps \cup AveragingOps \cup DaysOfOps

(***************************************************************************)
(* C22. A single-period call with the period label omitted has the outcome *)
(* of the same call with the label set to the first (most recent) column   *)
(* of the table the ratio takes its periods from: the balance sheet, also  *)
(* for the ratios that read the income statement as well, and the income   *)
(* statement for Interest Coverage.                                        *)
(***************************************************************************)
C22_OmittedLabelIsFirstColumn ==
    (/\ call.op \in SinglePeriodOps
     /\ call.date = NoDate
     /\ ~RefTable(call).isNone
     /\ RefTable(call).columns # <<>>)
        => result = SinglePeriod(call.op, call.inc, call.bs, RefTable(call).columns[1])

\* the income statement lacks the balance sheet's first column: the label of the
\* balance sheet is used to read it all the same
C22_Witness ==
    /\ call.op = "return_on_assets"
    /\ call.date = NoDate
    /\ TablesPresent(call)
    /\ call.bs.columns = AllPeriods
    /\ call.inc.columns = Tail(AllPeriods)
    /\ result = MissingAccount
    /\ return_on_assets(call.inc, call.bs, call.bs.columns[1]) = MissingAccount
    /\ return_on_assets(call.inc, call.bs, call.inc.columns[1]) = Ok(One)

C22_ValueReached ==
    /\ call.op = "interest_coverage_ratio"
    /\ call.date = NoDate
    /\ call.inc.columns = AllPeriods
    /\ IsNumber(call.inc, "EBIT", AllPeriods[1])
    /\ V(call.inc, "EBIT", AllPeriods[1]) = 2
    /\ result = Ok(FromInt(2))
    /\ interest_coverage_ratio(call.inc, AllPeriods[1]) = result

MarketOps == {"price_to_cash_flow_ratio", "retention_rate"}

\* the info fields a market ratio reads
MarketReads ==
    [price_to_cash_flow_ratio |-> {"currentPrice", "operatingCashflow", "sharesOutstanding"},
     retention_rate |-> {"payoutRatio"}]

\* every line item of the call is there to be converted: the tables and the
\* period (and, for an averaging ratio, the period after it) or the info record,
\* and every required cell
Converts(c) ==
    IF c.op \in MarketOps
    THEN ~c.info.isNone /\ InfoHas(c.info, MarketReads[c.op])
    ELSE /\ TablesPresent(c)
         /\ PeriodRequested(c)
         /\ \A a \in BsAccounts[c.op] : Has(c.bs, a, ReqDate(c))
         /\ \A a \in IncAccounts[c.op] : Has(c.inc, a, ReqDate(c))
         /\ c.op \in AveragingOps \cup DaysOfOps =>
                HasFollowing(c) /\ \A a \in BsAccounts[c.op] : Has(c.bs, a, Following(c))

\* the cells the call converts
RequiredCells(c) ==
    IF c.op \in MarketOps
    THEN {c.info.fields[k] : k \in MarketReads[c.op]}
    ELSE {At(c.bs, a, ReqDate(c)) : a \in BsAccounts[c.op]}
         \cup {At(c.inc, a, ReqDate(c)) : a \in IncAccounts[c.op]}
         \cup (IF c.op \in AveragingOps \cup DaysOfOps
               THEN {At(c.bs, a, Following(c)) : a \in BsAccounts[c.op]}
               ELSE {})

(***************************************************************************)
(* C23. In every single-period ratio each line item is converted before    *)
(* any arithmetic.  When all required cells are present: a NaN cell (no    *)
(* complex one among them) makes the call fail with MissingValue, a        *)
(* complex cell (no NaN one among them) with InvalidType, any such cell    *)
(* with one of the two, and without such a cell the call fails with        *)
(* neither.  No call returns a value unless every required cell is         *)
(* present and a real number.                                              *)
(***************************************************************************)
C23_CellsConvertedBeforeArithmetic ==
    call.op \in SinglePeriodOps \cup MarketOps =>
        /\ Converts(call) =>
               LET cells == RequiredCells(call)
                   nan == \E c \in cells : c.t = "nan"
                   complex == \E c \in cells : c.t = "complex"
               IN  /\ (nan /\ ~complex) => result = MissingValue
                   /\ (complex /\ ~nan) => result = InvalidType
                   /\ (nan \/ complex) => result \in {MissingValue, InvalidType}
                   /\ ~(nan \/ complex) => result \notin {MissingValue, InvalidType}
        /\ ~IsRaise(result) =>
               /\ Converts(call)
               /\ \A c \in RequiredCells(call) : c.t = "num"
               /\ result.val # Null

C23_Witness ==
    /\ call.op = "debt_to_assets_ratio"
    /\ Converts(call)
    /\ call.date = NoDate
    /\ At(call.bs, "Total Debt", ReqDate(call)) = NaN
    /\ At(call.bs, "Total Assets", ReqDate(call)) = Num(0)
    /\ result = MissingValue

\* a complex value in the info record of a market ratio
C23_ComplexInfoReached ==
    /\ call.op = "price_to_cash_flow_ratio"
    /\ Converts(call)
    /\ call.info.fields["operatingCashflow"] = Complex
    /\ call.info.fields["sharesOutstanding"] = Num(0)
    /\ result = InvalidType

TableBuilt(r) == r.op = "calculate_ratios" /\ r.exc = "none"

\* fetch_data was the last call and it raised
FetchFailed(r) == r.op = "fetch_data" /\ r.exc # "none"

(***************************************************************************)
(* C27. calculate_ratios produces a table only if the most recent          *)
(* fetch_data succeeded: called while no bundle is held (before any fetch, *)
(* or after the fetcher returned nothing) it fails and builds no table,    *)
(* and called right after a fetch_data that failed it fails and builds no  *)
(* table.                                                                  *)
(***************************************************************************)
C27_TableOnlyAfterSuccessfulFetch ==
    [][/\ (ret'.op = "calculate_ratios" /\ fundamentals.isNone /\ ret' # ret)
              => ~TableBuilt(ret') /\ ret'.df = NoDataFrame
       /\ (FetchFailed(ret) /\ ret'.op = "calculate_ratios")
              => ~TableBuilt(ret') /\ ret'.df = NoDataFrame]_vars

\* what the code guarantees: without a bundle calculate_ratios fails and builds
\* no table, and a fetch in which the fetcher returned nothing leaves no bundle
C27_NoBundleNoTable ==
    [][/\ (ret'.op = "calculate_ratios" /\ fundamentals.isNone /\ ret' # ret)
              => ret'.exc = "Exception" /\ ret'.df = NoDataFrame
       /\ (ret'.op = "fetch_data" /\ ret'.exc = "Exception") => fundamentals'.isNone
       /\ TableBuilt(ret') => ~fundamentals.isNone]_vars

\* fetch_data failed while cleaning and left the bundle it had fetched
C27_FailedFetchKeepsBundle ==
    /\ FetchFailed(ret)
    /\ ret.exc = "AttributeError"
    /\ ~fundamentals.isNone
    /\ drop_periods # {}
    /\ fundamentals.cash_flow.isNone
    /\ fundamentals.balance_sheet.columns # AllPeriods


\* the line items of each single-period ratio in the order its function
\* converts them (numerator first); the averaging ratios convert the balance
\* sheet item of the requested period and then that of the period after it
ConversionOrder ==
    [debt_to_assets_ratio |-> <<[t |-> "bs", a |-> "Total Debt"], [t |-> "bs", a |-> "Total Assets"]>>,
     financial_leverage_ratio |-> <<[t |-> "bs", a |-> "Total Assets"],
                                    [t |-> "bs", a |-> "Total Equity Gross Minority Interest"]>>,
     interest_coverage_ratio |-> <<[t |-> "inc", a |-> "EBIT"], [t |-> "inc", a |-> "Interest Expense"]>>,
     return_on_assets |-> <<[t |-> "inc", a |-> "Net Income From Continuing Operation Net Minority Interest"],
                            [t |-> "bs", a |-> "Total Assets"]>>,
     return_on_equity |-> <<[t |-> "inc", a |-> "Net Income From Continuing Operation Net Minority Interest"],
                            [t |-> "bs", a |-> "Total Equity Gross Minority Interest"]>>,
     return_on_total_capital |-> <<[t |-> "inc", a |-> "EBIT"], [t |-> "bs", a |-> "Total Debt"],
                                   [t |-> "bs", a |-> "Total Equity Gross Minority Interest"]>>,
     return_on_common_equity |-> <<[t |-> "inc", a |-> "Net Income From Continuing Operation Net Minority Interest"],
                                   [t |-> "bs", a |-> "Total Equity Gross Minority Interest"]>>,
     inventory_turnover |-> <<[t |-> "inc", a |-> "Cost Of Revenue"], [t |-> "bs", a |-> "Inventory"]>>,
     days_of_inventory_on_hand |-> <<[t |-> "inc", a |-> "Cost Of Revenue"], [t |-> "bs", a |-> "Inventory"]>>,
     receivables_turnover |-> <<[t |-> "inc", a |-> "Total Revenue"], [t |-> "bs", a |-> "Accounts Receivable"]>>,
     days_of_sales_outstanding |-> <<[t |-> "inc", a |-> "Total Revenue"],
                                     [t |-> "bs", a |-> "Accounts Receivable"]>>,
     payables_turnover |-> <<[t |-> "inc", a |-> "Cost Of Revenue"], [t |-> "bs", a |-> "Accounts Payable"]>>,
     number_of_days_of_payables |-> <<[t |-> "inc", a |-> "Cost Of Revenue"],
                                      [t |-> "bs", a |-> "Accounts Payable"]>>,
     working_capital_turnover |-> <<[t |-> "inc", a |-> "Total Revenue"], [t |-> "bs", a |-> "Current Assets"],
                                    [t |-> "bs", a |-> "Current Liabilities"]>>,
     fixed_asset_turnover |-> <<[t |-> "inc", a |-> "Total Revenue"], [t |-> "bs", a |-> "Net PPE"]>>,
     total_asset_turnover |-> <<[t |-> "inc", a |-> "Total Revenue"], [t |-> "bs", a |-> "Total Assets"]>>]

\* the cells of a call in conversion order (all of them present)
ConvertedCells(c) ==
    LET items == ConversionOrder[c.op]
        at == [i \in DOMAIN items |->
                  At(IF items[i].t = "bs" THEN c.bs ELSE c.inc, items[i].a, ReqDate(c))]
    IN  IF c.op \in AveragingOps \cup DaysOfOps
        THEN Append(at, At(c.bs, items[Len(items)].a, Following(c)))
        ELSE at

\* the failure of the first cell, in conversion order, that is not a real number
FirstFault(cells) ==
    LET bad == {i \in DOMAIN cells : cells[i].t # "num"}
        first == CHOOSE i \in bad : \A j \in bad : i <= j
    IN  IF cells[first].t = "nan" THEN MissingValue ELSE InvalidType

\* the columns leave an averaging ratio without the period after the requested one
HistoryShort(c) ==
    /\ c.op \in AveragingOps \cup DaysOfOps
    /\ \/ Len(c.bs.columns) < 2
       \/ c.date \in Range(c.bs.columns) /\ ~HasFollowing(c)

\* the requested period and, for an averaging ratio, the one after it are columns
PeriodsThere(c) ==
    /\ PeriodRequested(c)
    /\ c.op \in AveragingOps \cup DaysOfOps => HasFollowing(c)

\* the call, as its denominator is read: a days-of function divides as its turnover does
AsTurnover(c) == IF c.op \in DaysOfOps THEN [c EXCEPT !.op = TurnoverOf[c.op]] ELSE c

(***************************************************************************)
(* C25. In single-period form coexisting faults are reported in a fixed    *)
(* precedence.  A None table gives MissingInput whatever else is wrong;    *)
(* with both tables passed, an averaging ratio without the period after    *)
(* the requested one gives InsufficientHistory; with the periods there, a  *)
(* missing account gives MissingAccount even when a cell is NaN or         *)
(* complex; with every cell there, the first cell in conversion order      *)
(* (numerator first) that is not a real number gives MissingValue (NaN)    *)
(* or InvalidType (complex) even when the denominator is zero; and         *)
(* DivisionByZero is reported only when nothing else is wrong.             *)
(***************************************************************************)
C25_FaultPrecedence ==
    call.op \in SinglePeriodOps =>
        /\ ~TablesPresent(call) => result = MissingInput
        /\ (TablesPresent(call) /\ HistoryShort(call)) => result = InsufficientHistory
        /\ (TablesPresent(call) /\ PeriodsThere(call) /\ ~Converts(call))
               => result = MissingAccount
        /\ (Converts(call) /\ \E c \in RequiredCells(call) : c.t # "num")
               => result = FirstFault(ConvertedCells(call))
        /\ (ItemsNumeric(call) /\ Denominator(AsTurnover(call)) = 0)
               => result = DivisionByZero
        /\ result = DivisionByZero => ItemsNumeric(call)
        /\ result \in {MissingValue, InvalidType} => Converts(call)
        /\ result = MissingAccount => TablesPresent(call) /\ ~HistoryShort(call)

\* a NaN numerator together with a zero denominator: MissingValue
C25_Witness ==
    /\ call.op = "debt_to_assets_ratio"
    /\ call.date = NoDate
    /\ Converts(call)
    /\ At(call.bs, "Total Debt", ReqDate(call)).t = "nan"
    /\ At(call.bs, "Total Assets", ReqDate(call)) = Num(0)
    /\ result = MissingValue

\* a missing account together with a NaN cell: MissingAccount
C25_MissingAccountOverNaN ==
    /\ call.op = "inventory_turnover"
    /\ TablesPresent(call) /\ PeriodsThere(call)
    /\ "Cost Of Revenue" \notin DOMAIN call.inc.rows
    /\ Has(call.bs, "Inventory", ReqDate(call))
    /\ At(call.bs, "Inventory", ReqDate(call)).t = "nan"
    /\ result = MissingAccount

\* a complex numerator together with a NaN denominator item: InvalidType
C25_NumeratorConvertedFirst ==
    /\ call.op = "return_on_total_capital"
    /\ Converts(call)
    /\ At(call.inc, "EBIT", ReqDate(call)).t = "complex"
    /\ At(call.bs, "Total Debt", ReqDate(call)).t = "nan"
    /\ result = InvalidType


\* the call names a period label that is not a column of the table its periods come from
UnknownPeriod(c) ==
    /\ TablesPresent(c)
    /\ c.date # NoDate
    /\ c.date \notin Range(RefTable(c).columns)

(***************************************************************************)
(* C26. A single-period call naming a period label that is not a column    *)
(* of the table always fails, and the kind of the failure depends on the   *)
(* ratio: an averaging turnover or a days-of derivative fails with a       *)
(* ValueError (date not found when the balance sheet has two columns or    *)
(* more, insufficient history otherwise), every other ratio fails with     *)
(* MissingAccount (KeyError) whether or not the required accounts exist.   *)
(* No call that names a period returns a value unless the period is a      *)
(* column of every table the ratio reads.                                  *)
(***************************************************************************)
C26_UnknownPeriodFailureKind ==
    call.op \in SinglePeriodOps =>
        /\ UnknownPeriod(call) =>
               /\ IsRaise(result)
               /\ call.op \in AveragingOps \cup DaysOfOps =>
                      /\ result.exc = "ValueError"
                      /\ result.exc = MissingInput.exc
                      /\ result = IF Len(call.bs.columns) >= 2 THEN DateNotFound
                                  ELSE InsufficientHistory
               /\ call.op \in PlainOps =>
                      /\ result = MissingAccount
                      /\ result.exc = "KeyError"
        /\ (~IsRaise(result) /\ call.date # NoDate) =>
               /\ BsAccounts[call.op] # {} => call.date \in Range(call.bs.columns)
               /\ IncAccounts[call.op] # {} => call.date \in Range(call.inc.columns)

\* a non-averaging ratio, every required account there, an unknown period
C26_Witness ==
    /\ call.op = "total_asset_turnover"
    /\ UnknownPeriod(call)
    /\ ~AccountMissing(call)
    /\ call.bs.columns = AllPeriods /\ call.inc.columns = AllPeriods
    /\ result = MissingAccount

\* an averaging ratio and a days-of derivative, an unknown period
C26_DateNotFoundReached ==
    /\ call.op \in {"inventory_turnover", "days_of_sales_outstanding"}
    /\ UnknownPeriod(call)
    /\ ~AccountMissing(call)
    /\ call.bs.columns = AllPeriods
    /\ result = DateNotFound


\* table t1 is table t0 without the columns labelled in dp: no such column is
\* left, every other column is kept with its cells, in the order it had
KeptFrom(t0, t1, dp) ==
    /\ ~t0.isNone /\ ~t1.isNone
    /\ Range(t1.columns) \cap dp = {}
    /\ Range(t1.columns) = Range(t0.columns) \ dp
    /\ Len(t1.columns) = Cardinality(Range(t1.columns))
    /\ \A i, j \in DOMAIN t1.columns :
           i < j => IndexOf(t0.columns, t1.columns[i]) < IndexOf(t0.columns, t1.columns[j])
    /\ DOMAIN t1.rows = DOMAIN t0.rows
    /\ \A a \in DOMAIN t1.rows : \A p \in Range(t1.columns) : t1.rows[a][p] = t0.rows[a][p]

\* bundle g is what fetch_data holds after fetching bundle f with drop_periods dp
CleanedFrom(f, g, dp) ==
    /\ ~f.isNone /\ ~g.isNone
    /\ g.info = f.info
    /\ \A i \in DOMAIN Statements :
           LET k == Statements[i]
           IN  IF f[k].isNone THEN dp = {} /\ g[k] = f[k]
               ELSE KeptFrom(f[k], g[k], dp)

FetchSucceeded == ret.op = "fetch_data" /\ ret.exc = "none"

(***************************************************************************)
(* C28. After every successful fetch_data none of the three statement      *)
(* tables has a column whose label is in drop_periods, every other column  *)
(* of what was fetched is kept with its cells in its original relative     *)
(* order, and a drop label that matches no column is ignored: fetch_data   *)
(* fails only when nothing was fetched, or when a period is to be dropped  *)
(* from a statement that is None.                                          *)
(***************************************************************************)
C28_DroppedPeriodsGone ==
    ret.op = "fetch_data" =>
        /\ FetchSucceeded =>
               /\ \A i \in DOMAIN Statements :
                      ~fundamentals[Statements[i]].isNone =>
                          Range(fundamentals[Statements[i]].columns) \cap drop_periods = {}
               /\ \E f \in FetchResults : CleanedFrom(f, fundamentals, drop_periods)
        /\ ~FetchSucceeded =>
               \/ ret.exc = "Exception" /\ fundamentals.isNone
               \/ /\ ret.exc = "AttributeError" /\ ~fundamentals.isNone /\ drop_periods # {}
                  /\ \E i \in DOMAIN Statements : fundamentals[Statements[i]].isNone

\* a period dropped from all three statements, an unmatched drop label ignored
C28_Witness ==
    /\ FetchSucceeded
    /\ drop_periods = {Labels[1], UnknownDate}
    /\ fundamentals.balance_sheet.columns = Tail(AllPeriods)
    /\ fundamentals.income_statement.columns = Tail(AllPeriods)
    /\ fundamentals.cash_flow.columns = Tail(AllPeriods)
    /\ CleanedFrom(Bundle(AllPeriods), fundamentals, drop_periods)

\* a middle period dropped: the periods around it keep their order
C28_MiddlePeriodDropped ==
    /\ FetchSucceeded
    /\ drop_periods = {Labels[2]}
    /\ MaxPeriods >= 3
    /\ fundamentals.balance_sheet.columns = <<Labels[1], Labels[3]>>


\* the DuPont names that are rows of the table
DuPontPresent(df) == {n \in Range(DuPontNames) : HasRow(df, n)}

\* the period keys under which ratio n was entered into the dictionary the table is built from
EntryKeys(f, n) ==
    LET es == ratios_multi(f)
        i == CHOOSE j \in DOMAIN es : es[j].name = n
    IN  Range(es[i].keys)

\* the columns of the table at which row n is not null
NonNullAt(df, n) == {d \in Range(df.columns) : df.vals[n][d] # Null}

(***************************************************************************)
(* C29. The four DuPont rows are all-or-nothing in the table: after        *)
(* calculate_ratios either none of the four names is a row, or all four    *)
(* are, entered under the same set of period keys (the balance sheet's     *)
(* columns), so that no DuPont row has a value at a column where another   *)
(* has no key.  They are absent exactly when the DuPont call raised.       *)
(***************************************************************************)
C29_DuPontRowsAllOrNothing ==
    Calculated =>
        LET present == DuPontPresent(ret.df)
        IN  /\ present = {} \/ present = Range(DuPontNames)
            /\ present = {} <=> IsRaise(DuPontCall(fundamentals))
            /\ present # {} =>
                   /\ \A n, m \in present :
                          EntryKeys(fundamentals, n) = EntryKeys(fundamentals, m)
                   /\ \A n \in present :
                          /\ EntryKeys(fundamentals, n) = Range(fundamentals.balance_sheet.columns)
                          /\ NonNullAt(ret.df, n) \subseteq Range(fundamentals.balance_sheet.columns)

\* all four rows, one of them null at a period where the others have values
C29_Witness ==
    /\ Calculated
    /\ DuPontPresent(ret.df) = Range(DuPontNames)
    /\ fundamentals.balance_sheet.columns = AllPeriods
    /\ NonNullAt(ret.df, "DuPont Net Profit Margin") = Range(AllPeriods)
    /\ NonNullAt(ret.df, "DuPont ROE") = Range(Tail(AllPeriods))
    /\ NonNullAt(ret.df, "DuPont Asset Turnover") = Range(AllPeriods)

\* the table built without any DuPont row
C29_NoDuPontRowReached ==
    /\ Calculated
    /\ ret.df # NoDataFrame
    /\ DuPontPresent(ret.df) = {}
    /\ HasRow(ret.df, "Current Ratio")


\* the most recent value of row r is null while at least two older values are not
NullCurrent(df, r) ==
    /\ df.columns # <<>>
    /\ IsNull(df.vals[r][df.columns[1]])
    /\ Cardinality({d \in Range(df.columns) : ~IsNull(df.vals[r][d])}) >= 2

\* the non-null values of row r are not all equal
HistorySpread(df, r) ==
    \E d, e \in Range(df.columns) :
        /\ ~IsNull(df.vals[r][d]) /\ ~IsNull(df.vals[r][e])
        /\ df.vals[r][d] # df.vals[r][e]

(***************************************************************************)
(* C30. A scored ratio whose most recent value is null while at least two  *)
(* older values are non-null is still scored, and its score depends on     *)
(* the direction alone, whatever the historical values: when the           *)
(* historical values differ (max # min) it is 1.0 for a higher-is-better   *)
(* ratio and 0.0 for a lower-is-better one, and when they are all equal    *)
(* (max = min) it is 0.0 in both directions.                               *)
(***************************************************************************)
C30_NullCurrentScoredByDirection ==
    Scored =>
        \A r \in DirectionalRows(call.df) :
            NullCurrent(call.df, r) =>
                /\ r \in DOMAIN result.series
                /\ result.series[r] =
                       IF HistorySpread(call.df, r)
                       THEN IF r \in HigherBetter THEN One ELSE Zero
                       ELSE Zero

\* both directions with a null current value and differing older values
C30_Witness ==
    /\ Scored
    /\ "Current Ratio" \in DirectionalRows(call.df)
    /\ NullCurrent(call.df, "Current Ratio") /\ HistorySpread(call.df, "Current Ratio")
    /\ result.series["Current Ratio"] = One
    /\ "Debt-to-Assets Ratio" \in DirectionalRows(call.df)
    /\ ~NullCurrent(call.df, "Debt-to-Assets Ratio")

\* a lower-is-better ratio with a null current value and differing older values
C30_LowerBetterReached ==
    /\ Scored
    /\ "Debt-to-Assets Ratio" \in DirectionalRows(call.df)
    /\ NullCurrent(call.df, "Debt-to-Assets Ratio")
    /\ HistorySpread(call.df, "Debt-to-Assets Ratio")
    /\ result.series["Debt-to-Assets Ratio"] = Zero

\* max = min with a null current value, in both directions at once
C30_FlatHistoryReached ==
    /\ Scored
    /\ {"Current Ratio", "Debt-to-Assets Ratio"} \subseteq DirectionalRows(call.df)
    /\ NullCurrent(call.df, "Current Ratio") /\ ~HistorySpread(call.df, "Current Ratio")
    /\ NullCurrent(call.df, "Debt-to-Assets Ratio")
    /\ ~HistorySpread(call.df, "Debt-to-Assets Ratio")
    /\ result.series["Current Ratio"] = Zero
    /\ result.series["Debt-to-Assets Ratio"] = Zero
====
